---- MODULE Spec2Model ----
(***************************************************************************)
(* A model of the document reconstruction core of nkc-test-2.0-backend:    *)
(* the per-page preview pipelines (preview_pipeline.py,                    *)
(* preview_pipeline_v2.py), the deterministic segmenter                    *)
(* (pdf_extractor.py) and the vision pipeline with its reconciler          *)
(* (pdf_vision_pipeline.py).                                               *)
(*                                                                         *)
(* Python values are modelled as follows.  None is the string "null", a    *)
(* key that is missing from a dict is the string "absent".  Text lines are *)
(* strings of a small vocabulary; a regular expression is the set of       *)
(* vocabulary lines it matches.  The oracle (Gemini) is a nondeterministic *)
(* choice over the shapes of response the adapters distinguish.            *)
(***************************************************************************)
EXTENDS Integers, Sequences, FiniteSets, TLC

VARIABLES
    \* ---- run_preview_pipeline / run_enhanced_pipeline ----
    version,            \* "v1": run_preview_pipeline, "v2": run_enhanced_pipeline
    total_pages,        \* len(sorted_page_nums)
    p_idx,              \* number of pages the loop has finished
    blocks_seen,        \* whether a page with text blocks was met (all_blocks non-empty)
    final_questions,    \* final_questions
    global_id_counter,  \* global_id_counter
    pc,                 \* "loop", "stats", "returned", "raised"
    result,             \* the returned dict (canConfirm, unansweredCount)
    page_log,           \* per finished page: candidates, oracle response, page questions
    \* ---- a single call of a pure function ----
    fn,                 \* the function called
    arg,                \* its argument
    ret,                \* <<>> before the call returns, then its return value
    \* ---- process_files ----
    start_idx,          \* start_idx
    batch_num,          \* batch_num
    all_questions,      \* all_questions
    all_embedded_images,  \* all_embedded_images
    answer_key_mappings,  \* answer_key_mappings
    batch_log           \* the last batch: its pages, whether it failed, its questions

pvars == <<version, total_pages, p_idx, blocks_seen, final_questions,
           global_id_counter, pc, result, page_log>>
cvars == <<fn, arg, ret>>
fvars == <<start_idx, batch_num, all_questions, all_embedded_images,
           answer_key_mappings, batch_log>>
vars == <<version, total_pages, p_idx, blocks_seen, final_questions,
          global_id_counter, pc, result, page_log, fn, arg, ret,
          start_idx, batch_num, all_questions, all_embedded_images,
          answer_key_mappings, batch_log>>

NULL == "null"
ABSENT == "absent"

\* ------------------------------------------------------------------ bounds
MaxLines == 2
MaxOracleQs == 1
MaxUnits == 3
MaxKeyEntries == 2
MaxItems == 2
MaxParts == 3
MaxSpatialImgs == 2
MaxSpatialBlocks == 3
MaxSegLines == 4
MaxDocPages == 3
MaxBoundQs == 2
MaxBoundImgs == 2
MaxBlocks == 3
MaxImgs == 2

\* ------------------------------------------------------------- sequences
RECURSIVE SeqsUpTo(_, _)
SeqsUpTo(S, n) ==
    IF n = 0 THEN {<<>>}
    ELSE LET shorter == SeqsUpTo(S, n - 1)
         IN  shorter \cup {Append(s, x) : s \in {t \in shorter : Len(t) = n - 1}, x \in S}

RECURSIVE JoinWith(_, _)
\* sep.join(parts) for a sequence of strings
JoinWith(sep, parts) ==
    IF Len(parts) = 0 THEN ""
    ELSE IF Len(parts) = 1 THEN parts[1]
    ELSE parts[1] \o sep \o JoinWith(sep, Tail(parts))

\* ------------------------------------------------- deterministic segmenter
\* The vocabulary of text lines: two anchor lines, a noise line, an
\* option-start line and a plain line.
LineTexts == {"1. Q", "Q2 R", "Page 1", "A. x", "body"}

\* anchor_pattern.match(text)
anchor_pattern(text) == text \in {"1. Q", "Q2 R"}
\* ignore_pattern.match(text)
ignore_pattern(text) == text \in {"Page 1"}
\* opt_pattern.match(text)
opt_pattern(text) == text \in {"A. x", "B. y", "(a) z"}
\* the letter re.search(r'[A-D]', clean_start) finds in an option-start line
opt_letter(text) == IF text = "B. y" THEN "B" ELSE "A"

RECURSIVE anchor_loop(_, _, _)
\* The for loop of detect_question_anchors over the remaining lines, with the
\* list of closed questions and the current question (cur is <<>> for None,
\* <<q>> for an open question q).
anchor_loop(lines, questions, cur) ==
    IF Len(lines) = 0
    THEN questions \o cur
    ELSE LET text == Head(lines) IN
         IF ignore_pattern(text)
         THEN anchor_loop(Tail(lines), questions, cur)
         ELSE IF anchor_pattern(text)
         THEN LET closed == questions \o cur
              IN  anchor_loop(Tail(lines), closed,
                              <<[question_index |-> Len(closed) + 1, lines |-> <<text>>]>>)
         ELSE IF Len(cur) = 0
         THEN anchor_loop(Tail(lines), questions, cur)
         ELSE anchor_loop(Tail(lines), questions,
                          <<[cur[1] EXCEPT !.lines = Append(@, text)]>>)

\* mutant: the question open at the end of the input is not appended
detect_question_anchors_DropLast(lines) ==
    LET questions == anchor_loop(lines, <<>>, <<>>)
    IN  SubSeq(questions, 1, Len(questions) - 1)

\* mutant: a question is open before the first anchor line
detect_question_anchors_OpenAtStart(lines) ==
    anchor_loop(lines, <<>>, <<[question_index |-> 1, lines |-> <<>>]>>)

detect_question_anchors(lines) == anchor_loop(lines, <<>>, <<>>)

EmptyOptions == [k \in {"A", "B", "C", "D"} |-> NULL]

RECURSIVE format_loop(_, _, _, _)
\* The inner loop of format_questions_for_ai over one question's lines.
format_loop(lines, raw_lines, options, current_opt) ==
    IF Len(lines) = 0
    THEN [raw_question_lines |-> raw_lines, options |-> options]
    ELSE LET text == Head(lines) IN
         IF opt_pattern(text)
         THEN format_loop(Tail(lines), raw_lines,
                          [options EXCEPT ![opt_letter(text)] = text], opt_letter(text))
         ELSE IF current_opt # NULL
         THEN format_loop(Tail(lines), raw_lines,
                          [options EXCEPT ![current_opt] =
                              IF @ # NULL /\ @ # "" THEN @ \o " " \o text ELSE text],
                          current_opt)
         ELSE format_loop(Tail(lines), Append(raw_lines, text), options, current_opt)

format_question(q) ==
    LET f == format_loop(q.lines, <<>>, EmptyOptions, NULL)
    IN  [id |-> q.question_index, raw_question_lines |-> f.raw_question_lines,
         options |-> f.options, image_id |-> NULL, needsAnswer |-> "true"]

format_questions_for_ai(questions) ==
    [i \in 1..Len(questions) |-> format_question(questions[i])]

\* ------------------------------------------------------------ the oracle
\* What the oracle may put into its "questions" list: a non-dict value, a dict
\* without questionText, and dicts with the combinations of correctAnswer and
\* needsAnswer the pipelines tell apart.
OracleItems ==
    { [isDict |-> FALSE, questionText |-> ABSENT, correctAnswer |-> ABSENT, needsAnswer |-> ABSENT],
      [isDict |-> TRUE, questionText |-> ABSENT, correctAnswer |-> NULL, needsAnswer |-> ABSENT],
      [isDict |-> TRUE, questionText |-> "AI text", correctAnswer |-> NULL, needsAnswer |-> "true"],
      [isDict |-> TRUE, questionText |-> "AI text", correctAnswer |-> "A", needsAnswer |-> ABSENT] }

\* The outcomes of one oracle call: the call raises ("error"), the response has
\* no text ("blocked"), the text is no JSON ("badjson"), or it is JSON whose top
\* level is a dict, a list or another value; isList tells whether the questions
\* value (the list itself for a top-level list) is a list.
OracleResponses ==
    { [kind |-> k, top |-> "none", isList |-> FALSE, items |-> <<>>] :
        k \in {"error", "blocked", "badjson"} }
    \cup { [kind |-> "json", top |-> t, isList |-> FALSE, items |-> <<>>] : t \in {"other", "dict"} }
    \cup { [kind |-> "json", top |-> t, isList |-> TRUE, items |-> its] :
        t \in {"dict", "list"}, its \in SeqsUpTo(OracleItems, MaxOracleQs) }

\* analyze_page_refinement: [] on every failure, else result_json.get("questions", [])
analyze_page_refinement(resp) ==
    IF resp.kind # "json" \/ resp.top # "dict"
    THEN [isList |-> TRUE, items |-> <<>>]
    ELSE [isList |-> resp.isList, items |-> resp.items]

\* _parse_gemini_response: keeps the dicts that have questionText, with defaults
validate_item(q) ==
    [isDict |-> TRUE, questionText |-> q.questionText,
     correctAnswer |-> IF q.correctAnswer = ABSENT THEN NULL ELSE q.correctAnswer,
     needsAnswer |-> IF q.needsAnswer = ABSENT THEN "true" ELSE q.needsAnswer]

_parse_gemini_response(resp) ==
    IF resp.kind # "json" \/ resp.top = "other" \/ ~resp.isList
    THEN <<>>
    ELSE LET Valid(q) == q.isDict /\ q.questionText # ABSENT
             kept == SelectSeq(resp.items, Valid)
         IN  [i \in 1..Len(kept) |-> validate_item(kept[i])]

\* analyze_with_vision_and_text: [] on every failure, else the validated list
analyze_with_vision_and_text(resp) ==
    IF resp.kind \in {"error", "blocked"} THEN <<>> ELSE _parse_gemini_response(resp)

\* The question the fallback builds from one formatted candidate
fallback_q(fc) ==
    [isDict |-> TRUE, questionText |-> JoinWith(" ", fc.raw_question_lines),
     correctAnswer |-> NULL, needsAnswer |-> "true"]

fallback_questions(formatted) == [i \in 1..Len(formatted) |-> fallback_q(formatted[i])]

\* fallback_to_deterministic
fallback_to_deterministic(lines) ==
    fallback_questions(format_questions_for_ai(detect_question_anchors(lines)))

\* -------------------------------------------- the per-page preview pipelines
PageLines == SeqsUpTo(LineTexts, MaxLines)

\* the numbers of pages of the documents considered
PageCounts == 0..2

\* what analyze_page_refinement can return
RefinedV1 == {analyze_page_refinement(r) : r \in OracleResponses}

\* what analyze_with_vision_and_text can return
AnalysedV2 == {analyze_with_vision_and_text(r) : r \in OracleResponses}

NoResult == [canConfirm |-> NULL, unansweredCount |-> NULL]
\* page_log records, for the page the loop handled last: its number, its
\* formatted deterministic candidates, whether the adapter's result was empty
\* or no list, and the page's question list after the fail-safe; total is the
\* number of candidates of all pages handled so far.
NoLog == [page |-> 0, cands |-> <<>>, failed |-> "none", out |-> <<>>, total |-> 0]

\* "fails or returns an empty or non-list result": what the pipeline receives
\* from its adapter is empty or is no list
RefinedEmpty(refined) == ~refined.isList \/ Len(refined.items) = 0

\* q['id'] = global_id_counter; global_id_counter += 1, for each q of the page
assign_ids(qs, first_id) ==
    [i \in 1..Len(qs) |->
        [id |-> first_id + i - 1, questionText |-> qs[i].questionText,
         correctAnswer |-> qs[i].correctAnswer, needsAnswer |-> qs[i].needsAnswer]]

\* mutant: the fail-safe reacts to an empty list only, not to a non-list value
use_fallback_v1_ListOnly(refined) == refined.isList /\ Len(refined.items) = 0

\* the fail-safe test of run_preview_pipeline
use_fallback_v1(refined) == ~refined.isList \/ Len(refined.items) = 0

\* the page's question list after the fail-safe of run_preview_pipeline
page_questions_v1(lines, refined) ==
    IF use_fallback_v1(refined)
    THEN fallback_questions(format_questions_for_ai(detect_question_anchors(lines)))
    ELSE refined.items

\* the fallback test of run_enhanced_pipeline
use_fallback_v2(page_questions) == Len(page_questions) = 0

\* the page's question list after the fallback of run_enhanced_pipeline
page_questions_v2(lines, analysed) ==
    IF use_fallback_v2(analysed) THEN fallback_to_deterministic(lines) ELSE analysed

PInit ==
    /\ version \in {"v1", "v2"}
    /\ total_pages \in PageCounts
    /\ p_idx = 0
    /\ blocks_seen = FALSE
    /\ final_questions = <<>>
    /\ global_id_counter = 1
    /\ pc = "loop"
    /\ result = NoResult
    /\ page_log = NoLog
    /\ fn = "none" /\ arg = NULL /\ ret = NULL
    /\ start_idx = 0 /\ batch_num = 0 /\ all_questions = <<>>
    /\ all_embedded_images = <<>> /\ answer_key_mappings = <<>>
    /\ batch_log = [num |-> 0, start_page |-> 0, size |-> 0, failed |-> FALSE,
                    failed_before |-> FALSE, questions |-> <<>>]

\* run_preview_pipeline: all_blocks is empty
RaiseNoText ==
    /\ pc = "loop" /\ version = "v1" /\ total_pages = 0
    /\ pc' = "raised"
    /\ UNCHANGED <<version, total_pages, p_idx, blocks_seen, final_questions,
                   global_id_counter, result, page_log>>
    /\ UNCHANGED cvars
    /\ UNCHANGED fvars

\* One iteration of the page loop of run_preview_pipeline.  A document with a
\* text block on no page is not processed (RaiseNoText), so the last page has
\* text when no earlier page had.
ProcessPageV1 ==
    /\ pc = "loop" /\ version = "v1" /\ p_idx < total_pages
    /\ \E lines \in PageLines, refined \in RefinedV1 :
         /\ (p_idx + 1 = total_pages /\ ~blocks_seen) => Len(lines) > 0
         /\ LET formatted == format_questions_for_ai(detect_question_anchors(lines))
                qs == page_questions_v1(lines, refined)
                AllDicts == \A i \in 1..Len(qs) : qs[i].isDict
            IN  /\ blocks_seen' = (blocks_seen \/ Len(lines) > 0)
                /\ page_log' = [page |-> p_idx + 1, cands |-> formatted,
                                failed |-> IF RefinedEmpty(refined) THEN "yes" ELSE "no",
                                out |-> qs, total |-> page_log.total + Len(formatted)]
                /\ IF AllDicts
                   THEN /\ final_questions' = final_questions \o assign_ids(qs, global_id_counter)
                        /\ global_id_counter' = global_id_counter + Len(qs)
                        /\ p_idx' = p_idx + 1
                        /\ pc' = "loop"
                   ELSE \* q['id'] = ... on a non-dict raises TypeError
                        /\ pc' = "raised"
                        /\ UNCHANGED <<final_questions, global_id_counter, p_idx>>
    /\ UNCHANGED <<version, total_pages, result>>
    /\ UNCHANGED cvars
    /\ UNCHANGED fvars

\* One iteration of the page loop of run_enhanced_pipeline.
ProcessPageV2 ==
    /\ pc = "loop" /\ version = "v2" /\ p_idx < total_pages
    /\ \E lines \in PageLines, analysed \in AnalysedV2 :
         LET formatted == format_questions_for_ai(detect_question_anchors(lines))
             qs == page_questions_v2(lines, analysed)
         IN  /\ blocks_seen' = (blocks_seen \/ Len(lines) > 0)
             /\ page_log' = [page |-> p_idx + 1, cands |-> formatted,
                             failed |-> IF Len(analysed) = 0 THEN "yes" ELSE "no",
                             out |-> qs, total |-> page_log.total + Len(formatted)]
             /\ final_questions' = final_questions \o assign_ids(qs, global_id_counter)
             /\ global_id_counter' = global_id_counter + Len(qs)
             /\ p_idx' = p_idx + 1
    /\ UNCHANGED <<version, total_pages, pc, result>>
    /\ UNCHANGED cvars
    /\ UNCHANGED fvars

\* q.get('needsAnswer') is truthy
needs_answer(q) == q.needsAnswer = "true"

\* unanswered_count = sum(1 for q in final_questions if q.get('needsAnswer'))
unanswered_count(qs) == Cardinality({i \in 1..Len(qs) : needs_answer(qs[i])})

\* Step 4/5 of both pipelines: the stats, the zero-questions check, the return
Finish ==
    /\ pc = "loop" /\ p_idx = total_pages
    /\ ~(version = "v1" /\ total_pages = 0)
    /\ IF Len(final_questions) = 0
       THEN pc' = "raised" /\ UNCHANGED result
       ELSE /\ pc' = "returned"
            /\ result' = [canConfirm |-> unanswered_count(final_questions) = 0,
                          unansweredCount |-> unanswered_count(final_questions)]
    /\ UNCHANGED <<version, total_pages, p_idx, blocks_seen, final_questions,
                   global_id_counter, page_log>>
    /\ UNCHANGED cvars
    /\ UNCHANGED fvars

PNext == RaiseNoText \/ ProcessPageV1 \/ ProcessPageV2 \/ Finish

SpecPreview == PInit /\ [][PNext]_vars

\* ------------------------------------------------------- character strings
\* Where the code looks into a string (strip, regular expressions, substring
\* tests, int()), the string is a sequence of one-character strings.
Digits == {"0", "1", "2", "3", "4", "5", "6", "7", "8", "9"}
DigitVal(c) ==
    CASE c = "0" -> 0 [] c = "1" -> 1 [] c = "2" -> 2 [] c = "3" -> 3 [] c = "4" -> 4
      [] c = "5" -> 5 [] c = "6" -> 6 [] c = "7" -> 7 [] c = "8" -> 8 [] c = "9" -> 9
IsSpace(c) == c \in {" ", "\t", "\n"}

\* the code point of a character, for the order of str values
Code(c) ==
    CASE c = " " -> 32 [] c = "#" -> 35 [] c = ")" -> 41 [] c = "." -> 46
      [] c \in Digits -> 48 + DigitVal(c)
      [] c = ":" -> 58 [] c = "<" -> 60 [] c = ">" -> 62
      [] c = "N" -> 78 [] c = "Q" -> 81 [] c = "]" -> 93
      [] c = "a" -> 97 [] c = "b" -> 98 [] c = "c" -> 99 [] c = "e" -> 101
      [] c = "i" -> 105 [] c = "n" -> 110 [] c = "o" -> 111 [] c = "q" -> 113
      [] c = "r" -> 114 [] c = "s" -> 115 [] c = "t" -> 116 [] c = "u" -> 117
      [] c = "x" -> 120 [] c = "y" -> 121
      [] OTHER -> 0

RECURSIVE LStrip(_)
LStrip(s) == IF Len(s) > 0 /\ IsSpace(Head(s)) THEN LStrip(Tail(s)) ELSE s

RECURSIVE RStrip(_)
RStrip(s) ==
    IF Len(s) > 0 /\ IsSpace(s[Len(s)]) THEN RStrip(SubSeq(s, 1, Len(s) - 1)) ELSE s

\* str.strip()
Strip(s) == RStrip(LStrip(s))

\* a in b, for strings
IsSubstring(a, b) ==
    \E i \in 0..(Len(b) - Len(a)) : SubSeq(b, i + 1, i + Len(a)) = a

RECURSIVE StrLess(_, _)
\* a < b, for strings
StrLess(a, b) ==
    IF Len(b) = 0 THEN FALSE
    ELSE IF Len(a) = 0 THEN TRUE
    ELSE IF Head(a) = Head(b) THEN StrLess(Tail(a), Tail(b))
    ELSE Code(Head(a)) < Code(Head(b))

RECURSIVE DigitsValue(_)
DigitsValue(s) ==
    IF Len(s) = 0 THEN 0 ELSE 10 * DigitsValue(SubSeq(s, 1, Len(s) - 1)) + DigitVal(s[Len(s)])

\* int(s) succeeds: on the strings of the model, s is a non-empty run of digits
IntParses(s) == Len(s) > 0 /\ \A i \in 1..Len(s) : s[i] \in Digits

RECURSIVE JoinSeqs(_, _)
\* sep.join(parts) for strings that are character sequences
JoinSeqs(sep, parts) ==
    IF Len(parts) = 0 THEN <<>>
    ELSE IF Len(parts) = 1 THEN parts[1]
    ELSE parts[1] \o sep \o JoinSeqs(sep, Tail(parts))

\* --------------------------------------------------------- question ids
\* A question id is an int, a str or None.
IdInt(n) == [tag |-> "int", n |-> n, s |-> <<>>]
IdStr(s) == [tag |-> "str", n |-> 0, s |-> s]
IdNone == [tag |-> "none", n |-> 0, s |-> <<>>]

\* re.sub(r'^(Q|Question|No|#)\s*', '', cleaned, flags=re.IGNORECASE): the
\* alternatives are tried in this order at the start of the string, and the
\* first that matches is taken, together with the white space after it
strip_prefix(s) ==
    IF Len(s) >= 1 /\ s[1] \in {"Q", "q"} THEN LStrip(Tail(s))
    ELSE IF Len(s) >= 2 /\ s[1] \in {"N", "n"} /\ s[2] \in {"O", "o"} THEN LStrip(Tail(Tail(s)))
    ELSE IF Len(s) >= 1 /\ s[1] = "#" THEN LStrip(Tail(s))
    ELSE s

\* re.sub(r'[.:)\]]\s*$', '', cleaned): the leftmost closing character that
\* only white space follows, and that white space, are removed
strip_suffix(s) ==
    LET t == RStrip(s)
    IN  IF Len(t) > 0 /\ t[Len(t)] \in {".", ":", ")", "]"}
        THEN SubSeq(t, 1, Len(t) - 1)
        ELSE s

normalize_question_id(q_id) ==
    IF q_id.tag = "int" THEN q_id
    ELSE IF q_id.tag = "str"
    THEN LET cleaned == Strip(strip_suffix(strip_prefix(Strip(q_id.s))))
         IN  IF IntParses(cleaned) THEN IdInt(DigitsValue(cleaned)) ELSE q_id
    ELSE q_id

\* a < b as Python evaluates it for two normalized ids; comparing an int with a
\* str, or None with anything, raises TypeError
Comparable(a, b) == a.tag = b.tag /\ a.tag \in {"int", "str"}
KeyLess(a, b) == IF a.tag = "int" THEN a.n < b.n ELSE StrLess(a.s, b.s)

\* -------------------------------------------- questions of the vision path
\* An options dict is the function from its keys to their values; None and {}
\* are both the empty function.  A correctAnswer is None, a str, a list of str
\* or a {min, max} dict; diagramPage 0 stands for a missing (or None) page.
NoOptions == <<>>
CaNone == [kind |-> "none", s |-> "", l |-> <<>>, min |-> 0, max |-> 0]
CaStr(x) == [kind |-> "str", s |-> x, l |-> <<>>, min |-> 0, max |-> 0]
CaList(l) == [kind |-> "list", s |-> "", l |-> l, min |-> 0, max |-> 0]
CaRange(lo, hi) == [kind |-> "range", s |-> "", l |-> <<>>, min |-> lo, max |-> hi]

\* bool(correctAnswer)
CaTruthy(ca) ==
    \/ ca.kind = "str" /\ ca.s # ""
    \/ ca.kind = "list" /\ Len(ca.l) > 0
    \/ ca.kind = "range"

\* value and value.strip(), for an option value
OptNonBlank(v) == v \notin {NULL, "", " "}

\* bool(part.get("type"))
TypeTruthy(t) == t \notin {NULL, ABSENT, ""}

Min(S) == CHOOSE x \in S : \A y \in S : x <= y

\* the separator of merged question texts, " <br><br> "
TextSeparator == <<" ", "<", "b", "r", ">", "<", "b", "r", ">", " ">>

RECURSIVE collect_texts(_)
\* all_question_texts: the stripped non-blank question texts, in part order
collect_texts(parts) ==
    IF Len(parts) = 0 THEN <<>>
    ELSE LET q_text == Head(parts).question
         IN  (IF Len(q_text) > 0 /\ Len(Strip(q_text)) > 0 THEN <<Strip(q_text)>> ELSE <<>>)
             \o collect_texts(Tail(parts))

RECURSIVE collect_options(_, _)
\* all_options: every non-blank option value is written under its key, part
\* after part
collect_options(parts, all_options) ==
    IF Len(parts) = 0 THEN all_options
    ELSE LET opts == Head(parts).options
             set == {k \in DOMAIN opts : OptNonBlank(opts[k])}
         IN  collect_options(Tail(parts),
                 [k \in (DOMAIN all_options) \cup set |->
                     IF k \in set THEN opts[k] ELSE all_options[k]])

RECURSIVE merge_answer(_, _)
\* merged["correctAnswer"] after the loop over the parts
merge_answer(parts, current) ==
    IF Len(parts) = 0 THEN current
    ELSE merge_answer(Tail(parts),
             IF CaTruthy(Head(parts).correctAnswer) /\ ~CaTruthy(current)
             THEN Head(parts).correctAnswer ELSE current)

RECURSIVE merge_type(_, _)
\* merged["type"] after the loop over the parts
merge_type(parts, current) ==
    IF Len(parts) = 0 THEN current
    ELSE merge_type(Tail(parts),
             IF TypeTruthy(Head(parts).type) /\ Head(parts).type # "single"
             THEN Head(parts).type ELSE current)

RECURSIVE unique_texts(_, _)
\* unique_texts: a text is skipped when it is inside, or contains, a text kept
\* before it
unique_texts(texts, kept) ==
    IF Len(texts) = 0 THEN kept
    ELSE LET text == Head(texts)
             is_duplicate == \E i \in 1..Len(kept) :
                                IsSubstring(text, kept[i]) \/ IsSubstring(kept[i], text)
         IN  unique_texts(Tail(texts), IF is_duplicate THEN kept ELSE Append(kept, text))

merge_question_parts(parts) ==
    LET all_options == collect_options(parts, NoOptions)
        diagram_pages == {parts[i].diagramPage : i \in 1..Len(parts)} \ {0}
        first == parts[1]
    IN  [first EXCEPT
            !.correctAnswer = merge_answer(parts, first.correctAnswer),
            !.type = merge_type(parts, first.type),
            !.question = JoinSeqs(TextSeparator, unique_texts(collect_texts(parts), <<>>)),
            !.options = IF DOMAIN all_options # {} THEN all_options ELSE @,
            !.optionImages = IF DOMAIN all_options # {}
                             THEN [k \in DOMAIN all_options |-> NULL] ELSE @,
            !.diagramPage = IF diagram_pages # {} THEN Min(diagram_pages) ELSE @,
            !.crossPage = TRUE]

QKey(q) == normalize_question_id(q.id)

RECURSIVE group_by_key_Adjacent(_)
\* mutant: only neighbouring questions with the same key form a group
group_by_key_Adjacent(questions) ==
    IF Len(questions) = 0 THEN <<>>
    ELSE LET rest == group_by_key_Adjacent(Tail(questions))
             q == Head(questions)
         IN  IF Len(rest) > 0 /\ QKey(rest[1][1]) = QKey(q)
             THEN <<(<<q>> \o rest[1])>> \o Tail(rest)
             ELSE <<(<<q>>)>> \o rest

RECURSIVE group_loop(_, _)
\* question_groups: the groups in the order in which their keys first occur,
\* each with its questions in input order
group_loop(questions, groups) ==
    IF Len(questions) = 0 THEN groups
    ELSE LET q == Head(questions)
             hit == {i \in 1..Len(groups) : QKey(groups[i][1]) = QKey(q)}
         IN  group_loop(Tail(questions),
                 IF hit = {} THEN Append(groups, <<q>>)
                 ELSE [i \in 1..Len(groups) |->
                          IF i \in hit THEN Append(groups[i], q) ELSE groups[i]])

group_by_key(questions) == group_loop(questions, <<>>)

\* mutant: a group of one is passed through merge_question_parts too
merge_group_Always(group) == merge_question_parts(group)

\* one group's unit: the question itself for a group of one, else the merge
merge_group(group) ==
    IF Len(group) = 1 THEN group[1] ELSE merge_question_parts(group)

RECURSIVE insert_sorted(_, _)
\* x put after every element of the sorted list that is not greater than it
insert_sorted(sorted, x) ==
    IF Len(sorted) = 0 THEN <<x>>
    ELSE IF KeyLess(QKey(x), QKey(Head(sorted))) THEN <<x>> \o sorted
    ELSE <<Head(sorted)>> \o insert_sorted(Tail(sorted), x)

RECURSIVE stable_sort(_)
\* list.sort(key=...): ascending and stable
stable_sort(qs) ==
    IF Len(qs) = 0 THEN <<>>
    ELSE insert_sorted(stable_sort(SubSeq(qs, 1, Len(qs) - 1)), qs[Len(qs)])

\* the sort compares keys of different types (or None with a key): TypeError
sort_raises(qs) ==
    \E i, j \in 1..Len(qs) : i # j /\ ~Comparable(QKey(qs[i]), QKey(qs[j]))

\* merge_cross_page_questions: the list returned, or raised when the sort raises
merge_cross_page_questions(questions) ==
    LET groups == group_by_key(questions)
        merged_questions == [i \in 1..Len(groups) |-> merge_group(groups[i])]
    IN  IF sort_raises(merged_questions)
        THEN [raised |-> TRUE, value |-> <<>>]
        ELSE [raised |-> FALSE, value |-> stable_sort(merged_questions)]

\* a question as _parse_response emits it (plus the diagramPage that
\* merge_question_parts reads)
VQ(id, type, question, options, correctAnswer, diagramPage, crossPage) ==
    [id |-> id, type |-> type, question |-> question, image |-> NULL,
     options |-> options, optionImages |-> [k \in DOMAIN options |-> NULL],
     correctAnswer |-> correctAnswer, marks |-> 4, negativeMarks |-> 1,
     crossPage |-> crossPage, diagramPage |-> diagramPage]

Opts(a, b, c, d) == [k \in {"A", "B", "C", "D"} |->
                        CASE k = "A" -> a [] k = "B" -> b [] k = "C" -> c [] k = "D" -> d]

\* The questions the merge is tried on: ids 1, "Q1", 2, "2.", "x", "y" (the
\* first two and the next two normalize to the same key), texts that contain
\* one another, option maps with blank and missing values, all kinds of answer.
MergeUnits ==
    { VQ(IdInt(1), "single", <<"a", "b">>, Opts("x", "y", NULL, NULL), CaNone, 0, FALSE),
      VQ(IdStr(<<"Q", "1">>), "single", <<"b">>, Opts("", " ", "x", NULL), CaStr("A"), 2, FALSE),
      VQ(IdInt(2), "numerical", <<"c", " ">>, NoOptions, CaRange(5, 5), 1, FALSE),
      VQ(IdStr(<<"2", ".">>), "multiple", <<"a">>, Opts("y", "", "", ""), CaList(<<"A", "C">>), 0, FALSE),
      VQ(IdStr(<<"x">>), "single", <<"a", "b">>, Opts("", "", "", ""), CaNone, 0, FALSE),
      VQ(IdStr(<<"x">>), NULL, <<"c">>, Opts("x", NULL, NULL, NULL), CaStr(""), 1, TRUE),
      VQ(IdStr(<<"y">>), "single", <<>>, NoOptions, CaStr("B"), 0, FALSE),
      VQ(IdNone, "single", <<"a">>, Opts("x", "y", "x", "y"), CaNone, 0, FALSE) }

MergeInputs == SeqsUpTo(MergeUnits, MaxUnits)

\* ---- merge_cross_page_questions, called on a list and then on its own result
MInit ==
    /\ fn = "merge_cross_page_questions"
    /\ arg \in MergeInputs
    /\ ret = <<>>
    /\ version = "none" /\ total_pages = 0 /\ p_idx = 0 /\ blocks_seen = FALSE
    /\ final_questions = <<>> /\ global_id_counter = 1 /\ pc = "none"
    /\ result = NoResult /\ page_log = NoLog
    /\ start_idx = 0 /\ batch_num = 0 /\ all_questions = <<>>
    /\ all_embedded_images = <<>> /\ answer_key_mappings = <<>>
    /\ batch_log = [num |-> 0, start_page |-> 0, size |-> 0, failed |-> FALSE,
                    failed_before |-> FALSE, questions |-> <<>>]

\* merge_cross_page_questions(all_questions)
MergeFirst ==
    /\ fn = "merge_cross_page_questions" /\ Len(ret) = 0
    /\ ret' = <<merge_cross_page_questions(arg)>>
    /\ UNCHANGED <<fn, arg>>
    /\ UNCHANGED pvars
    /\ UNCHANGED fvars

\* merge_cross_page_questions on the list the first call returned
MergeAgain ==
    /\ fn = "merge_cross_page_questions" /\ Len(ret) = 1 /\ ~ret[1].raised
    /\ ret' = Append(ret, merge_cross_page_questions(ret[1].value))
    /\ UNCHANGED <<fn, arg>>
    /\ UNCHANGED pvars
    /\ UNCHANGED fvars

MNext == MergeFirst \/ MergeAgain

SpecMerge == MInit /\ [][MNext]_vars

\* ------------------------------------------------------ _match_answer_key
\* An answer of the answer key is None, a str, a list of str or another JSON
\* value (a number).
AnsNone == [kind |-> "none", s |-> <<>>, l |-> <<>>]
AnsStr(s) == [kind |-> "str", s |-> s, l |-> <<>>]
AnsList(l) == [kind |-> "list", s |-> <<>>, l |-> l]
AnsNumber == [kind |-> "num", s |-> <<>>, l |-> <<>>]

\* str.upper(), character by character
UpperChar(c) ==
    CASE c = "a" -> "A" [] c = "b" -> "B" [] c = "c" -> "C" [] c = "e" -> "E"
      [] c = "q" -> "Q" [] c = "x" -> "X" [] c = "y" -> "Y" [] OTHER -> c
Upper(s) == [i \in 1..Len(s) |-> UpperChar(s[i])]

\* answer.upper() in ['A', 'B', 'C', 'D', 'E']
IsChoiceLetter(s) == Len(s) = 1 /\ UpperChar(s[1]) \in {"A", "B", "C", "D", "E"}

\* float(answer) succeeds: on the strings of the model, a run of digits with
\* white space around it
FloatParses(s) == IntParses(Strip(s))
FloatValue(s) == DigitsValue(Strip(s))

\* a one-character str as the model's plain string
LetterOf(s) == s[1]

RECURSIVE build_lookup(_, _)
\* answer_lookup: normalized question number -> answer; a later mapping for
\* the same number replaces the earlier one, mappings with a None number or a
\* None answer are skipped.  The lookup is the sequence of its (key, answer)
\* pairs.
build_lookup(answer_key, lookup) ==
    IF Len(answer_key) = 0 THEN lookup
    ELSE LET mapping == Head(answer_key)
             key == normalize_question_id(mapping.question_number)
             others == SelectSeq(lookup, LAMBDA e : e.key # key)
         IN  build_lookup(Tail(answer_key),
                 IF mapping.question_number.tag # "none" /\ mapping.answer.kind # "none"
                 THEN Append(others, [key |-> key, answer |-> mapping.answer])
                 ELSE lookup)

InLookup(lookup, key) == \E i \in 1..Len(lookup) : lookup[i].key = key
LookupGet(lookup, key) == (CHOOSE e \in {lookup[i] : i \in 1..Len(lookup)} : e.key = key).answer

\* the body of the loop of _match_answer_key for a question with an entry
apply_answer(q, answer) ==
    IF answer.kind = "list"
    THEN [q EXCEPT !.correctAnswer = CaList(answer.l), !.type = "multiple"]
    ELSE IF answer.kind = "str"
    THEN IF IsChoiceLetter(answer.s)
         THEN [q EXCEPT !.correctAnswer = CaStr(LetterOf(Upper(answer.s)))]
         ELSE IF FloatParses(answer.s)
         THEN [q EXCEPT !.correctAnswer = CaRange(FloatValue(answer.s), FloatValue(answer.s)),
                        !.type = "numerical"]
         ELSE [q EXCEPT !.correctAnswer = [CaStr("other") EXCEPT !.l = answer.s]]
    ELSE q

_match_answer_key(questions, answer_key) ==
    LET answer_lookup == build_lookup(answer_key, <<>>)
    IN  [i \in 1..Len(questions) |->
            IF InLookup(answer_lookup, QKey(questions[i]))
            THEN apply_answer(questions[i], LookupGet(answer_lookup, QKey(questions[i])))
            ELSE questions[i]]

\* The questions and answer-key mappings the matching is tried on.
MatchUnits ==
    { VQ(IdInt(1), "single", <<"a">>, Opts("x", "y", "x", "y"), CaNone, 0, FALSE),
      VQ(IdInt(2), "multiple", <<"b">>, Opts("x", "y", "x", "y"), CaList(<<"A", "B">>), 0, FALSE),
      VQ(IdStr(<<"Q", "1">>), "numerical", <<"c">>, NoOptions, CaNone, 0, FALSE),
      VQ(IdStr(<<"x">>), "single", <<"a">>, Opts("x", "y", "x", "y"), CaStr("A"), 0, FALSE) }

KeyMappings ==
    { [question_number |-> n, answer |-> a] :
        n \in {IdInt(1), IdStr(<<"Q", "1">>), IdInt(2), IdStr(<<"#", "2">>), IdNone},
        a \in {AnsStr(<<"B">>), AnsStr(<<"b">>), AnsList(<<"A", "C">>), AnsStr(<<"1", "2">>),
               AnsStr(<<"a", "b">>), AnsNumber, AnsNone} }

MatchInputs ==
    { [questions |-> qs, answer_key |-> ak] :
        qs \in SeqsUpTo(MatchUnits, 2) \ {<<>>},
        ak \in SeqsUpTo(KeyMappings, MaxKeyEntries) \ {<<>>} }

KInit ==
    /\ fn = "_match_answer_key"
    /\ arg \in MatchInputs
    /\ ret = <<>>
    /\ version = "none" /\ total_pages = 0 /\ p_idx = 0 /\ blocks_seen = FALSE
    /\ final_questions = <<>> /\ global_id_counter = 1 /\ pc = "none"
    /\ result = NoResult /\ page_log = NoLog
    /\ start_idx = 0 /\ batch_num = 0 /\ all_questions = <<>>
    /\ all_embedded_images = <<>> /\ answer_key_mappings = <<>>
    /\ batch_log = [num |-> 0, start_page |-> 0, size |-> 0, failed |-> FALSE,
                    failed_before |-> FALSE, questions |-> <<>>]

\* _match_answer_key(questions, answer_key)
MatchCall ==
    /\ fn = "_match_answer_key" /\ Len(ret) = 0
    /\ ret' = <<_match_answer_key(arg.questions, arg.answer_key)>>
    /\ UNCHANGED <<fn, arg>>
    /\ UNCHANGED pvars
    /\ UNCHANGED fvars

KNext == MatchCall

SpecMatch == KInit /\ [][KNext]_vars

\* ------------------------------------------------- the oracle's response text
\* The text of a response is the sequence of its JSON tokens; white space
\* between tokens is insignificant to every function below.  A token is a
\* punctuation mark, a complete string literal ("str"), a string literal with a
\* LaTeX command behind a single backslash ("latex", e.g. "\sqrt") or with the
\* delimiters \( \) ("paren"), a string literal cut off before its closing
\* quote ("openstr"), a number, a bare word, or a markdown code fence (three
\* backticks, with or without the word json).
Tok(cls, txt) == [cls |-> cls, txt |-> txt]
LBrace == Tok("{", "{")
RBrace == Tok("}", "}")
LBrack == Tok("[", "[")
RBrack == Tok("]", "]")
Colon == Tok(":", ":")
Comma == Tok(",", ",")
Str(t) == Tok("str", t)
Latex(t) == Tok("latex", t)
Paren(t) == Tok("paren", t)
OpenStr(t) == Tok("openstr", t)
Num(t) == Tok("num", t)
Bare(t) == Tok("bare", t)
Fence(t) == Tok("fence", t)

\* the number of '"' characters of a token
Quotes(tok) ==
    IF tok.cls \in {"str", "latex", "paren"} THEN 2
    ELSE IF tok.cls = "openstr" THEN 1 ELSE 0

RECURSIVE CountQuotes(_)
\* text.count('"')
CountQuotes(text) ==
    IF Len(text) = 0 THEN 0 ELSE Quotes(Head(text)) + CountQuotes(Tail(text))

\* text.count(c) for a punctuation mark c
CountTok(text, tok) == Cardinality({i \in 1..Len(text) : text[i] = tok})

\* text.rfind(tok): the index of the last occurrence, 0 when there is none
\* (Python's -1); Python's position 0 is index 1
RFind(text, tok) ==
    LET hits == {i \in 1..Len(text) : text[i] = tok}
    IN  IF hits = {} THEN 0 ELSE CHOOSE i \in hits : \A j \in hits : j <= i

\* text.find('}', from): the first index >= from, 0 when there is none
FindFrom(text, tok, from) ==
    LET hits == {i \in from..Len(text) : text[i] = tok}
    IN  IF hits = {} THEN 0 ELSE CHOOSE i \in hits : \A j \in hits : i <= j

RECURSIVE Repeat(_, _)
Repeat(tok, n) == IF n <= 0 THEN <<>> ELSE <<tok>> \o Repeat(tok, n - 1)

\* json.loads accepts a token as a value
IsValue(tok) ==
    \/ tok.cls \in {"str", "num"}
    \/ tok.cls = "bare" /\ tok.txt \in {"null", "true", "false"}

RECURSIVE json_scan(_, _, _, _)
\* json.loads as a pushdown recognizer: st is what the parser expects next,
\* stack the open objects and arrays
json_scan(text, i, st, stack) ==
    IF i > Len(text) THEN st = "after" /\ Len(stack) = 0
    ELSE LET tok == text[i]
             top == IF Len(stack) = 0 THEN "none" ELSE stack[Len(stack)]
             pop == SubSeq(stack, 1, Len(stack) - 1)
             value ==
                 IF IsValue(tok) THEN json_scan(text, i + 1, "after", stack)
                 ELSE IF tok = LBrace THEN json_scan(text, i + 1, "key_or_close", Append(stack, "{"))
                 ELSE IF tok = LBrack THEN json_scan(text, i + 1, "value_or_close", Append(stack, "["))
                 ELSE FALSE
         IN  CASE st = "value" -> value
               [] st = "value_or_close" ->
                     IF tok = RBrack THEN json_scan(text, i + 1, "after", pop) ELSE value
               [] st = "key_or_close" ->
                     IF tok = RBrace THEN json_scan(text, i + 1, "after", pop)
                     ELSE tok.cls = "str" /\ json_scan(text, i + 1, "colon", stack)
               [] st = "key" -> tok.cls = "str" /\ json_scan(text, i + 1, "colon", stack)
               [] st = "colon" -> tok = Colon /\ json_scan(text, i + 1, "value", stack)
               [] st = "after" ->
                     IF tok = Comma /\ top = "{" THEN json_scan(text, i + 1, "key", stack)
                     ELSE IF tok = Comma /\ top = "[" THEN json_scan(text, i + 1, "value", stack)
                     ELSE IF tok = RBrace /\ top = "{" THEN json_scan(text, i + 1, "after", pop)
                     ELSE IF tok = RBrack /\ top = "[" THEN json_scan(text, i + 1, "after", pop)
                     ELSE FALSE

\* json.loads(text) does not raise JSONDecodeError
json_loads_ok(text) == json_scan(text, 1, "value", <<>>)

\* Fix 1: re.sub(r':\s*(IMG_\d+)\s*([,}\]])', r': "\1"\2', text)
fix_img(text) ==
    [i \in 1..Len(text) |->
        IF /\ text[i].cls = "bare" /\ text[i].txt = "IMG_0"
           /\ i > 1 /\ i < Len(text)
           /\ text[i - 1] = Colon
           /\ text[i + 1] \in {Comma, RBrace, RBrack}
        THEN Str(text[i].txt) ELSE text[i]]

\* Fix 2: a backslash before a word of two or more letters is doubled
fix_backslash(text) ==
    [i \in 1..Len(text) |-> IF text[i].cls = "latex" THEN Str(text[i].txt) ELSE text[i]]

\* Fix 3: text.replace('\\(', '(').replace('\\)', ')')
fix_parens(text) ==
    [i \in 1..Len(text) |-> IF text[i].cls = "paren" THEN Str(text[i].txt) ELSE text[i]]

\* the last of the keys "negativeMarks", "marks", "correctAnswer", in that
\* order of preference
last_complete(text) ==
    IF RFind(text, Str("negativeMarks")) # 0 THEN RFind(text, Str("negativeMarks"))
    ELSE IF RFind(text, Str("marks")) # 0 THEN RFind(text, Str("marks"))
    ELSE RFind(text, Str("correctAnswer"))

\* the else branch of _repair_truncated_json: the last quote, when it opens a
\* string, is replaced by "null", then the open brackets and braces are closed
brute_force_close(text) ==
    LET open_braces == CountTok(text, LBrace) - CountTok(text, RBrace)
        open_brackets == CountTok(text, LBrack) - CountTok(text, RBrack)
        quoted == {i \in 1..Len(text) : Quotes(text[i]) > 0}
        last_quote == IF quoted = {} THEN 0 ELSE CHOOSE i \in quoted : \A j \in quoted : j <= i
        before == SubSeq(text, 1, last_quote - 1)
        cut ==
            IF last_quote = 0 THEN text
            ELSE IF text[last_quote].cls = "openstr"
            THEN \* the quote at position 0 is not looked at (last_quote > 0)
                 IF last_quote > 1 /\ CountQuotes(before) % 2 = 0
                 THEN before \o <<Str("null")>>
                 ELSE text
            ELSE \* the closing quote of a complete literal
                 IF (CountQuotes(before) + 1) % 2 = 0
                 THEN before \o <<Str(text[last_quote].txt), Bare("null"), OpenStr("")>>
                 ELSE text
    IN  cut \o Repeat(RBrack, open_brackets) \o Repeat(RBrace, open_braces)

_repair_truncated_json(text) ==
    LET lc == last_complete(text)
        close_pos == FindFrom(text, RBrace, lc)
    IN  IF lc > 1
        THEN IF close_pos > 0
             THEN SubSeq(text, 1, close_pos) \o <<RBrack, RBrace>>
             ELSE text
        ELSE brute_force_close(text)

_sanitize_gemini_json(text) ==
    LET fixed == fix_parens(fix_backslash(fix_img(text)))
    IN  IF Len(fixed) > 0 /\ fixed[Len(fixed)] = RBrace
        THEN fixed
        ELSE _repair_truncated_json(fixed)

\* _parse_response, lines 967-975: the markdown code fences are cut off
strip_fences(raw_text) ==
    LET a == IF Len(raw_text) > 0 /\ Head(raw_text).cls = "fence" THEN Tail(raw_text)
             ELSE raw_text
    IN  IF Len(a) > 0 /\ a[Len(a)] = Fence("fence") THEN SubSeq(a, 1, Len(a) - 1) ELSE a

\* _parse_response, lines 977-989: the raw text is parsed, and sanitized and
\* parsed again when that fails; raised means ValueError("AI returned invalid
\* JSON")
load_json(raw_text) ==
    LET clean == strip_fences(raw_text)
        sanitized == _sanitize_gemini_json(clean)
    IN  IF json_loads_ok(clean)
        THEN [raised |-> FALSE, sanitized |-> FALSE, text |-> clean]
        ELSE [raised |-> ~json_loads_ok(sanitized), sanitized |-> TRUE, text |-> sanitized]

\* Three complete responses; the texts tried are their prefixes, with and
\* without a string cut off at the end.
Doc1 ==
    << LBrace, Str("questions"), Colon, LBrack,
       LBrace, Str("id"), Colon, Num("1"), Comma, Str("marks"), Colon, Num("4"), Comma,
       Str("negativeMarks"), Colon, Num("1"), RBrace, Comma,
       LBrace, Str("id"), Colon, Num("2"), Comma, Str("image"), Colon, Bare("IMG_0"), Comma,
       Str("correctAnswer"), Colon, Str("A"), Comma, Str("marks"), Colon, Num("4"), RBrace,
       RBrack, RBrace >>
Doc2 ==
    << LBrace, Str("questions"), Colon, LBrack,
       LBrace, Str("id"), Colon, Num("1"), Comma, Str("question"), Colon, Latex("sqrt"), Comma,
       Str("correctAnswer"), Colon, Bare("null"), RBrace, RBrack, RBrace >>
Doc3 ==
    << Fence("fence json"), LBrace, Str("questions"), Colon, LBrack,
       LBrace, Str("question"), Colon, Paren("x"), Comma, Str("options"), Colon,
       LBrace, Str("A"), Colon, Str("x"), RBrace, RBrace, RBrack, RBrace, Fence("fence") >>

Prefixes(doc) == {SubSeq(doc, 1, n) : n \in 0..Len(doc)}

ResponseTexts ==
    LET P == Prefixes(Doc1) \cup Prefixes(Doc2) \cup Prefixes(Doc3)
    IN  P \cup {p \o <<OpenStr("x")>> : p \in P}
          \cup {<<Str("marks"), Colon, Num("4")>>, <<LBrack, OpenStr("a"), Str("b")>>}

TInit ==
    /\ fn = "_parse_response"
    /\ arg \in ResponseTexts
    /\ ret = <<>>
    /\ version = "none" /\ total_pages = 0 /\ p_idx = 0 /\ blocks_seen = FALSE
    /\ final_questions = <<>> /\ global_id_counter = 1 /\ pc = "none"
    /\ result = NoResult /\ page_log = NoLog
    /\ start_idx = 0 /\ batch_num = 0 /\ all_questions = <<>>
    /\ all_embedded_images = <<>> /\ answer_key_mappings = <<>>
    /\ batch_log = [num |-> 0, start_page |-> 0, size |-> 0, failed |-> FALSE,
                    failed_before |-> FALSE, questions |-> <<>>]

\* the JSON stage of _parse_response(raw_text, ...)
LoadText ==
    /\ fn = "_parse_response" /\ Len(ret) = 0
    /\ ret' = <<load_json(arg)>>
    /\ UNCHANGED <<fn, arg>>
    /\ UNCHANGED pvars
    /\ UNCHANGED fvars

TNext == LoadText

SpecText == TInit /\ [][TNext]_vars

\* ------------------------------------------------------------ _parse_response
\* An entry of the "questions" list of a response: a JSON object with the
\* fields _parse_response reads, or some other JSON value.
IdAbsent == [tag |-> "absent", n |-> 0, s |-> <<>>]

VItem(id, type, question, image, diagramPage, diagramOption, options, correctAnswer) ==
    [isDict |-> TRUE, id |-> id, type |-> type, question |-> question, image |-> image,
     diagramPage |-> diagramPage, diagramOption |-> diagramOption, options |-> options,
     correctAnswer |-> correctAnswer]

NotADict == [VItem(IdAbsent, ABSENT, <<>>, NULL, 0, FALSE, NoOptions, CaNone)
                EXCEPT !.isDict = FALSE]

\* q_image.startswith("data:") or q_image.startswith("http")
IsUri(image) == image \in {"data:o", "http:o"}

\* page_images_map[page]
page_imgs(embedded_images, page) == SelectSeq(embedded_images, LAMBDA img : img.page = page)

\* sorted(page_imgs, key=width * height, reverse=True)[0]: the first image of
\* the largest area
largest(imgs) ==
    LET i == CHOOSE i \in 1..Len(imgs) :
                 /\ \A j \in 1..Len(imgs) : imgs[j].area <= imgs[i].area
                 /\ \A j \in 1..(i - 1) : imgs[j].area < imgs[i].area
    IN  imgs[i]

\* lines 1014-1040: the image of a question
match_diagram(q, embedded_images) ==
    LET imgs == page_imgs(embedded_images, q.diagramPage)
    IN  IF q.image # NULL /\ IsUri(q.image) THEN q.image
        ELSE IF q.diagramPage # 0 /\ Len(imgs) > 0
        THEN IF q.diagramOption THEN imgs[1].base64_uri ELSE largest(imgs).base64_uri
        ELSE NULL

\* lines 1042-1046
ensure_options(q) ==
    LET q_type == IF q.type = ABSENT THEN "single" ELSE q.type
    IN  IF DOMAIN q.options = {} /\ q_type # "numerical"
        THEN Opts("", "", "", "")
        ELSE q.options

\* lines 1048-1059: the i-th entry (counted from 0) as a validated question
validated_q(q, i, embedded_images) ==
    [VQ(IF q.id = IdAbsent THEN IdInt(i + 1) ELSE q.id,
        IF q.type = ABSENT THEN "single" ELSE q.type,
        q.question, ensure_options(q), q.correctAnswer, 0, FALSE)
       EXCEPT !.image = match_diagram(q, embedded_images)]

RECURSIVE validate(_, _, _)
\* lines 1004-1059: entries that are no dict or have no text are skipped
validate(questions, i, embedded_images) ==
    IF i >= Len(questions) THEN <<>>
    ELSE LET q == questions[i + 1]
             rest == validate(questions, i + 1, embedded_images)
         IN  IF ~q.isDict \/ Len(q.question) = 0 THEN rest
             ELSE <<validated_q(q, i, embedded_images)>> \o rest

\* correctAnswer is None
answer_is_none(q) == q.correctAnswer.kind = "none"
all_answered(qs) == \A i \in 1..Len(qs) : ~answer_is_none(qs[i])
count_unanswered(qs) == Cardinality({i \in 1..Len(qs) : answer_is_none(qs[i])})

ParseRaised(error) ==
    [raised |-> TRUE, error |-> error, questions |-> <<>>,
     canConfirm |-> FALSE, unansweredCount |-> 0]

\* _parse_response(raw_text, embedded_images).  raw_text.text is the token
\* text of the response, raw_text.data the value json.loads gives for it when
\* it parses: a dict with or without the key "questions", or another value.
_parse_response(raw_text, embedded_images) ==
    LET data == raw_text.data
        validated == validate(data.questions, 0, embedded_images)
    IN  IF load_json(raw_text.text).raised THEN ParseRaised("ValueError: invalid JSON")
        ELSE IF ~data.isDict THEN ParseRaised("AttributeError")
        ELSE IF Len(data.questions) = 0 THEN ParseRaised("ValueError: 0 questions")
        ELSE [raised |-> FALSE, error |-> "none", questions |-> validated,
              canConfirm |-> all_answered(validated),
              unansweredCount |-> count_unanswered(validated)]

\* -------------------------------------------------------------- process_files
MAX_PAGES_PER_BATCH == 5
OVERLAP_PAGES == 1

\* the numbers of page images tried: none, one batch, two batches, three batches
PageTotals == {0, 1, 5, 6, 10, 11}

\* the embedded images of the files: page, width * height, data URI
Img(page, area, uri) == [page |-> page, area |-> area, base64_uri |-> uri]
EmbeddedImageLists ==
    { <<>>,
      <<Img(1, 2, "E1")>>,
      <<Img(1, 1, "E1"), Img(1, 2, "E2")>>,
      <<Img(1, 2, "E1"), Img(1, 2, "E2"), Img(2, 1, "E3")>> }

\* the mappings process_answer_key returns ([] when no answer key is given)
AnswerKeys == { <<>>, <<[question_number |-> IdInt(1), answer |-> AnsStr(<<"B">>)]>> }

\* the entries of a response's "questions" list
VisionItems ==
    { VItem(IdAbsent, ABSENT, <<"a">>, NULL, 1, FALSE, NoOptions, CaNone),
      VItem(IdStr(<<"Q", "1">>), "numerical", <<"b">>, "IMG_0", 1, TRUE,
            NoOptions, CaRange(5, 5)),
      VItem(IdStr(<<"x">>), "single", <<"c">>, "data:o", 2, FALSE,
            Opts("x", "y", "", "x"), CaStr("A")),
      VItem(IdInt(2), "single", <<>>, NULL, 2, FALSE, NoOptions, CaNone),
      NotADict }

\* the values a response's text denotes; questions is [] when the key is missing
VisionData ==
    {[isDict |-> FALSE, questions |-> <<>>]}
      \cup {[isDict |-> TRUE, questions |-> qs] : qs \in SeqsUpTo(VisionItems, MaxItems)}

\* the response texts by their syntax: complete, cut off and repairable, cut
\* off and not repaired
VisionTexts == {Doc2, SubSeq(Doc1, 1, 22), SubSeq(Doc1, 1, 16)}

\* what model.generate_content(...) and response.text give for a batch
BatchResponses ==
    {[kind |-> k, raw_text |-> [text |-> <<>>, data |-> [isDict |-> FALSE, questions |-> <<>>]]] :
        k \in {"call raises", "blocked"}}
      \cup {[kind |-> "text", raw_text |-> [text |-> t, data |-> d]] :
              t \in VisionTexts, d \in VisionData}

\* lines 758-780: the try block of a batch; raised means the except clause ran
batch_result(response, embedded_images) ==
    IF response.kind # "text" THEN ParseRaised(response.kind)
    ELSE _parse_response(response.raw_text, embedded_images)

\* for each question _parse_response emits for the entries (lines 1004-1059),
\* whether the entry had the key "id" (line 1049: q.get("id", i + 1))
id_declared(questions) ==
    LET kept == SelectSeq(questions, LAMBDA q : q.isDict /\ Len(q.question) # 0)
    IN  [k \in 1..Len(kept) |-> kept[k].id # IdAbsent]

\* the outcomes of the try block over all responses, by the embedded images:
\* the result and, for its questions, whether the response declared their ids
BatchResults ==
    [imgs \in EmbeddedImageLists |->
        {[batch |-> batch_result(r, imgs),
          declared |-> IF batch_result(r, imgs).raised THEN <<>>
                       ELSE id_declared(r.raw_text.data.questions)] : r \in BatchResponses}]

\* lines 773-777
extend_questions(all_q, batch) ==
    IF batch.raised THEN all_q ELSE all_q \o batch.questions

\* line 786: not all_questions
no_questions_Never(all_q) == FALSE
no_questions(all_q) == Len(all_q) = 0

\* the log of the last batch: its number, first page and size, whether its try
\* block failed, its questions, the pages of the batch before it, the pages
\* sent in any batch so far and, for each question of all_questions, the batch
\* it came from and whether the response declared its id
NoBatch == [num |-> 0, start_page |-> 0, size |-> 0, failed |-> FALSE,
            failed_before |-> FALSE, questions |-> <<>>,
            prev_pages |-> {}, sent_pages |-> {}, origin |-> <<>>]

\* line 732
end_idx(idx, total) == Min({idx + MAX_PAGES_PER_BATCH, total})

\* lines 735-741: the index of the first page image of the batch
batch_start_page_NoOverlap(idx) == idx
batch_start_page(idx) == IF idx = 0 THEN idx ELSE idx - OVERLAP_PAGES

FilesResult(error, questions) ==
    [error |-> error, questions |-> questions,
     canConfirm |-> all_answered(questions),
     unansweredCount |-> count_unanswered(questions)]

\* process_files after the files were converted to page images
FInit ==
    /\ total_pages \in PageTotals
    /\ all_embedded_images \in EmbeddedImageLists
    /\ answer_key_mappings \in AnswerKeys
    /\ start_idx = 0 /\ batch_num = 0 /\ all_questions = <<>>
    /\ batch_log = NoBatch
    /\ pc = "loop"
    /\ result = FilesResult("none", <<>>)
    /\ version = "vision" /\ p_idx = 0 /\ blocks_seen = FALSE
    /\ final_questions = <<>> /\ global_id_counter = 1 /\ page_log = NoLog
    /\ fn = "none" /\ arg = NULL /\ ret = NULL

\* line 715-716: no page image at all
RaiseNoPages ==
    /\ version = "vision" /\ pc = "loop" /\ total_pages = 0
    /\ pc' = "raised"
    /\ result' = FilesResult("ValueError: no pages", <<>>)
    /\ UNCHANGED <<total_pages, all_embedded_images, answer_key_mappings, start_idx,
                   batch_num, all_questions, batch_log>>
    /\ UNCHANGED <<version, p_idx, blocks_seen, final_questions, global_id_counter, page_log>>
    /\ UNCHANGED cvars

\* one iteration of the batch loop, lines 730-784
ProcessBatch ==
    /\ version = "vision" /\ pc = "loop" /\ start_idx < total_pages
    /\ \E outcome \in BatchResults[all_embedded_images] :
         LET batch == outcome.batch
             e == end_idx(start_idx, total_pages)
             b == batch_start_page(start_idx)
         IN  /\ batch_num' = batch_num + 1
             /\ all_questions' = extend_questions(all_questions, batch)
             /\ start_idx' = e
             /\ batch_log' = [num |-> batch_num + 1, start_page |-> b + 1,
                              size |-> e - b,
                              failed |-> batch.raised,
                              failed_before |-> batch_log.failed_before \/ batch_log.failed,
                              questions |-> batch.questions,
                              prev_pages |-> batch_log.start_page
                                               .. (batch_log.start_page + batch_log.size - 1),
                              sent_pages |-> batch_log.sent_pages \cup ((b + 1) .. e),
                              origin |-> batch_log.origin \o
                                  [k \in 1..Len(outcome.declared) |->
                                      [batch |-> batch_num + 1,
                                       declared |-> outcome.declared[k]]]]
    /\ UNCHANGED <<total_pages, all_embedded_images, answer_key_mappings, pc, result>>
    /\ UNCHANGED <<version, p_idx, blocks_seen, final_questions, global_id_counter, page_log>>
    /\ UNCHANGED cvars

\* lines 786-812: the zero-questions check, the merge, the answer key, the result
FinishFiles ==
    /\ version = "vision" /\ pc = "loop" /\ total_pages > 0 /\ start_idx >= total_pages
    /\ LET merged == merge_cross_page_questions(all_questions)
           unique_questions ==
               IF Len(answer_key_mappings) > 0
               THEN _match_answer_key(merged.value, answer_key_mappings)
               ELSE merged.value
       IN  IF no_questions(all_questions)
           THEN pc' = "raised" /\ result' = FilesResult("ValueError: no questions", <<>>)
           ELSE IF merged.raised
           THEN pc' = "raised" /\ result' = FilesResult("TypeError", <<>>)
           ELSE pc' = "returned" /\ result' = FilesResult("none", unique_questions)
    /\ UNCHANGED <<total_pages, all_embedded_images, answer_key_mappings, start_idx,
                   batch_num, all_questions, batch_log>>
    /\ UNCHANGED <<version, p_idx, blocks_seen, final_questions, global_id_counter, page_log>>
    /\ UNCHANGED cvars

FNext == RaiseNoPages \/ ProcessBatch \/ FinishFiles

SpecFiles == FInit /\ [][FNext]_vars

\* ------------------------------------------------------- the image extractors
\* An image object of a page (an entry of page.get_images): its byte content,
\* the number of rectangles it is placed at (page.get_image_rects), whether
\* it is smaller than 20 pixels in a dimension, and whether doc.extract_image
\* raises for it.  hash(image_bytes) is taken as the byte content itself.
ImgObj(bytes, nrects, tiny, fails) ==
    [bytes |-> bytes, nrects |-> nrects, tiny |-> tiny, fails |-> fails]

ImageObjects ==
    { ImgObj("b1", 1, FALSE, FALSE), ImgObj("b1", 2, FALSE, FALSE),
      ImgObj("b2", 1, FALSE, FALSE), ImgObj("b2", 0, FALSE, FALSE),
      ImgObj("b3", 1, TRUE, FALSE), ImgObj("b4", 1, FALSE, TRUE) }

\* an element of an extractor's output; rect is 0 when bbox is None
Element(page_num, bytes, rect, source) ==
    [page_num |-> page_num, bytes |-> bytes, rect |-> rect, source |-> source]

\* the documents tried: a first page of up to MaxImgs image objects, with or
\* without a second page, with or without a diagram found on page 1
ImageDocs ==
    { [pages |-> <<first>> \o rest, diagrams |-> d] :
        first \in SeqsUpTo(ImageObjects, MaxImgs),
        rest \in {<<>>, <<(<<>>)>>, <<(<<ImgObj("b1", 1, FALSE, FALSE)>>)>>},
        d \in {<<>>, <<Element(1, "d1", 1, "diagram")>>} }

RECURSIVE FlattenPages(_, _)
\* the (page, image object) pairs in the order of the two nested loops
FlattenPages(pages, page_num) ==
    IF Len(pages) = 0 THEN <<>>
    ELSE [i \in 1..Len(Head(pages)) |-> [page_num |-> page_num, obj |-> Head(pages)[i]]]
            \o FlattenPages(Tail(pages), page_num + 1)

\* the elements appended for one image object: one per rectangle, or one with
\* rects[0] (bbox None when there is no rectangle)
elements_of(it, first_rect_only) ==
    IF first_rect_only
    THEN <<Element(it.page_num, it.obj.bytes, IF it.obj.nrects > 0 THEN 1 ELSE 0, "embedded")>>
    ELSE [r \in 1..it.obj.nrects |-> Element(it.page_num, it.obj.bytes, r, "embedded")]

RECURSIVE image_loop(_, _, _)
\* the loop over the image objects.  v says what the extractor does: dedup
\* (seen_hashes), catch (try/except around an object), min_size (the 20 pixel
\* filter), first_rect_only
image_loop(items, seen_hashes, v) ==
    IF Len(items) = 0 THEN [raised |-> FALSE, out |-> <<>>]
    ELSE LET it == Head(items)
             seen2 == IF v.dedup THEN seen_hashes \cup {it.obj.bytes} ELSE seen_hashes
             skip == image_loop(Tail(items), seen_hashes, v)
             rest == image_loop(Tail(items), seen2, v)
         IN  IF it.obj.fails
             THEN IF v.catch THEN skip ELSE [raised |-> TRUE, out |-> <<>>]
             ELSE IF v.dedup /\ it.obj.bytes \in seen_hashes THEN skip
             ELSE IF v.min_size /\ it.obj.tiny THEN rest
             ELSE [raised |-> rest.raised,
                   out |-> IF rest.raised THEN <<>>
                           ELSE elements_of(it, v.first_rect_only) \o rest.out]

\* image_extractor.extract_images
extract_images(doc) ==
    image_loop(FlattenPages(doc.pages, 1), {},
               [dedup |-> FALSE, catch |-> FALSE, min_size |-> FALSE, first_rect_only |-> FALSE])

\* image_extractor_enhanced.extract_images_enhanced; _extract_vector_graphics
\* returns []
extract_images_enhanced(doc) ==
    image_loop(FlattenPages(doc.pages, 1), {},
               [dedup |-> TRUE, catch |-> TRUE, min_size |-> FALSE, first_rect_only |-> FALSE])

\* image_extractor_v2.extract_all_visual_elements: the embedded images, then
\* the diagrams of detect_and_extract_diagrams
extract_all_visual_elements(doc) ==
    LET embedded == image_loop(FlattenPages(doc.pages, 1), {},
               [dedup |-> TRUE, catch |-> TRUE, min_size |-> FALSE, first_rect_only |-> FALSE])
    IN  [raised |-> FALSE, out |-> embedded.out \o doc.diagrams]

\* pdf_vision_pipeline.extract_embedded_images
extract_embedded_images(doc) ==
    image_loop(FlattenPages(doc.pages, 1), {},
               [dedup |-> TRUE, catch |-> TRUE, min_size |-> TRUE, first_rect_only |-> TRUE])

ImageExtractors == {"extract_images", "extract_images_enhanced",
                    "extract_all_visual_elements", "extract_embedded_images"}

IInit ==
    /\ fn \in ImageExtractors
    /\ arg \in ImageDocs
    /\ ret = <<>>
    /\ version = "none" /\ total_pages = 0 /\ p_idx = 0 /\ blocks_seen = FALSE
    /\ final_questions = <<>> /\ global_id_counter = 1 /\ pc = "none"
    /\ result = NoResult /\ page_log = NoLog
    /\ start_idx = 0 /\ batch_num = 0 /\ all_questions = <<>>
    /\ all_embedded_images = <<>> /\ answer_key_mappings = <<>>
    /\ batch_log = [num |-> 0, start_page |-> 0, size |-> 0, failed |-> FALSE,
                    failed_before |-> FALSE, questions |-> <<>>]

ExtractImages ==
    /\ fn = "extract_images" /\ Len(ret) = 0
    /\ ret' = <<extract_images(arg)>>
    /\ UNCHANGED <<fn, arg>>
    /\ UNCHANGED pvars
    /\ UNCHANGED fvars

ExtractImagesEnhanced ==
    /\ fn = "extract_images_enhanced" /\ Len(ret) = 0
    /\ ret' = <<extract_images_enhanced(arg)>>
    /\ UNCHANGED <<fn, arg>>
    /\ UNCHANGED pvars
    /\ UNCHANGED fvars

ExtractAllVisualElements ==
    /\ fn = "extract_all_visual_elements" /\ Len(ret) = 0
    /\ ret' = <<extract_all_visual_elements(arg)>>
    /\ UNCHANGED <<fn, arg>>
    /\ UNCHANGED pvars
    /\ UNCHANGED fvars

ExtractEmbeddedImages ==
    /\ fn = "extract_embedded_images" /\ Len(ret) = 0
    /\ ret' = <<extract_embedded_images(arg)>>
    /\ UNCHANGED <<fn, arg>>
    /\ UNCHANGED pvars
    /\ UNCHANGED fvars

INext == ExtractImages \/ ExtractImagesEnhanced \/ ExtractAllVisualElements
            \/ ExtractEmbeddedImages

SpecImages == IInit /\ [][INext]_vars

\* ------------------------------------------------------------ reading order
\* A text block: its page, the left edge x and the top edge y of its bbox.
\* column is -1 until _sort_multi_column sets it, reading_order 0 until
\* calculate_reading_order sets it.
Block(page_num, x, y) ==
    [page_num |-> page_num, x |-> x, y |-> y, column |-> -1, reading_order |-> 0]

\* tuples of three numbers compared as Python compares tuples
Less3(a, b) ==
    \/ a[1] < b[1]
    \/ a[1] = b[1] /\ a[2] < b[2]
    \/ a[1] = b[1] /\ a[2] = b[2] /\ a[3] < b[3]

\* list.sort(key=...) / sorted(...): the stable sort of seq by keys[i]
SortByKey(seq, keys) ==
    LET n == Len(seq)
        rank(i) == 1 + Cardinality({j \in 1..n :
                        Less3(keys[j], keys[i]) \/ (keys[j] = keys[i] /\ j < i)})
    IN  [r \in 1..n |-> seq[CHOOSE i \in 1..n : rank(i) = r]]

RECURSIVE cluster_loop(_, _, _)
\* the loop of _cluster_coordinates over the sorted coordinates
cluster_loop(sorted_coords, clusters, threshold) ==
    IF Len(sorted_coords) = 0 THEN clusters
    ELSE LET coord == Head(sorted_coords)
             last == clusters[Len(clusters)]
         IN  cluster_loop(Tail(sorted_coords),
                 IF coord - last[Len(last)] <= threshold
                 THEN [clusters EXCEPT ![Len(clusters)] = Append(last, coord)]
                 ELSE Append(clusters, <<coord>>),
                 threshold)

_cluster_coordinates(coords, threshold) ==
    IF Len(coords) = 0 THEN <<>>
    ELSE LET sorted_coords == SortByKey(coords, [i \in 1..Len(coords) |-> <<coords[i], 0, 0>>])
         IN  cluster_loop(Tail(sorted_coords), <<(<<Head(sorted_coords)>>)>>, threshold)

\* the blocks of one page, in input order
blocks_of_page(text_blocks, p) == SelectSeq(text_blocks, LAMBDA b : b.page_num = p)

PagesOf(text_blocks) == {text_blocks[i].page_num : i \in 1..Len(text_blocks)}

\* detect_columns: page -> number of clusters of the left edges, threshold
\* page_width * 0.1
detect_columns(text_blocks, page_width) ==
    [p \in PagesOf(text_blocks) |->
        LET blocks == blocks_of_page(text_blocks, p)
        IN  Len(_cluster_coordinates([i \in 1..Len(blocks) |-> blocks[i].x],
                                     page_width \div 10))]

Abs(n) == IF n < 0 THEN -n ELSE n

\* lines 270-277: the first cluster with a member nearer than 50, else 0
column_of(x, clusters) ==
    LET near == {c \in 1..Len(clusters) :
                    \E k \in 1..Len(clusters[c]) : Abs(x - clusters[c][k]) < 50}
    IN  IF near = {} THEN 0 ELSE Min(near) - 1

_sort_multi_column(blocks, num_columns) ==
    LET clusters == _cluster_coordinates([i \in 1..Len(blocks) |-> blocks[i].x], 50)
        with_col == [i \in 1..Len(blocks) |->
                        [blocks[i] EXCEPT !.column = column_of(blocks[i].x, clusters)]]
    IN  SortByKey(with_col,
                  [i \in 1..Len(blocks) |-> <<with_col[i].column, with_col[i].y, with_col[i].x>>])

\* lines 124-129: the blocks of a page in reading order
order_page(blocks, num_columns) ==
    IF num_columns = 1
    THEN SortByKey(blocks, [i \in 1..Len(blocks) |-> <<blocks[i].y, blocks[i].x, 0>>])
    ELSE _sort_multi_column(blocks, num_columns)

RECURSIVE order_pages(_, _, _)
\* the loop over sorted(pages.keys())
order_pages(text_blocks, columns_per_page, pages_left) ==
    IF pages_left = {} THEN <<>>
    ELSE LET p == Min(pages_left)
             num_columns == IF p \in DOMAIN columns_per_page THEN columns_per_page[p] ELSE 1
         IN  order_page(blocks_of_page(text_blocks, p), num_columns)
                \o order_pages(text_blocks, columns_per_page, pages_left \ {p})

calculate_reading_order(text_blocks, columns_per_page) ==
    LET ordered == order_pages(text_blocks, columns_per_page, PagesOf(text_blocks))
    IN  [i \in 1..Len(ordered) |-> [ordered[i] EXCEPT !.reading_order = i]]

\* the blocks and page widths tried
BlockSet ==
    {Block(1, x, y) : x \in {10, 55, 65, 400}, y \in {0, 100}}
        \cup {Block(2, 10, 100), Block(2, 400, 0)}

OrderInputs ==
    { [text_blocks |-> bs, page_width |-> w] :
        bs \in SeqsUpTo(BlockSet, MaxBlocks), w \in {400, 600} }

OInit ==
    /\ fn = "calculate_reading_order"
    /\ arg \in OrderInputs
    /\ ret = <<>>
    /\ version = "none" /\ total_pages = 0 /\ p_idx = 0 /\ blocks_seen = FALSE
    /\ final_questions = <<>> /\ global_id_counter = 1 /\ pc = "none"
    /\ result = NoResult /\ page_log = NoLog
    /\ start_idx = 0 /\ batch_num = 0 /\ all_questions = <<>>
    /\ all_embedded_images = <<>> /\ answer_key_mappings = <<>>
    /\ batch_log = [num |-> 0, start_page |-> 0, size |-> 0, failed |-> FALSE,
                    failed_before |-> FALSE, questions |-> <<>>]

\* pdf_extractor_v2.extract_with_spatial_analysis, lines 77-84:
\* detect_columns, then calculate_reading_order
ReadingOrder ==
    /\ fn = "calculate_reading_order" /\ Len(ret) = 0
    /\ ret' = <<calculate_reading_order(arg.text_blocks,
                    detect_columns(arg.text_blocks, arg.page_width))>>
    /\ UNCHANGED <<fn, arg>>
    /\ UNCHANGED pvars
    /\ UNCHANGED fvars

ONext == ReadingOrder

SpecOrder == OInit /\ [][ONext]_vars

\* ------------------------------------------------ attach_images_to_questions
\* A question as the binder sees it: the page of its first line, the vertical
\* range y0..y1 of its question_bbox, and its image_id ("absent" while the key
\* is not set).  An image: its page and the vertical range of its bbox; id is
\* "absent" until the binder names it.
BQ(page_num, y0, y1) == [page_num |-> page_num, y0 |-> y0, y1 |-> y1, image_id |-> ABSENT]
BImg(page_num, y0, y1) == [page_num |-> page_num, y0 |-> y0, y1 |-> y1, id |-> ABSENT]

\* img_id = f"IMG_{i}"
ImgId(i) == "IMG_" \o ToString(i)

\* q_bbox[1] <= img_y_center <= q_bbox[3], with img_y_center = (y0 + y1) / 2
contains_center(q, img) == 2 * q.y0 <= img.y0 + img.y1 /\ img.y0 + img.y1 <= 2 * q.y1

\* lines 170-177: the index of the first question whose range contains the
\* image's center, 0 when there is none
candidate_container(page_qs, qs, img) ==
    LET hits == {k \in 1..Len(page_qs) : contains_center(qs[page_qs[k]], img)}
    IN  IF hits = {} THEN 0 ELSE page_qs[Min(hits)]

\* mutant: the first question above the image, whatever the gap
nearest_above_First(page_qs, qs, img) ==
    LET above == {k \in 1..Len(page_qs) : qs[page_qs[k]].y1 <= img.y0}
    IN  IF above = {} THEN 0 ELSE page_qs[Min(above)]

\* lines 185-191: the first question with the smallest gap among those whose
\* bottom edge is at or above the image's top edge, 0 when there is none
nearest_above(page_qs, qs, img) ==
    LET above == {k \in 1..Len(page_qs) : qs[page_qs[k]].y1 <= img.y0}
        dist(k) == img.y0 - qs[page_qs[k]].y1
    IN  IF above = {} THEN 0
        ELSE page_qs[CHOOSE k \in above :
                 /\ \A j \in above : dist(k) <= dist(j)
                 /\ \A j \in above : j < k => dist(k) < dist(j)]

\* the nearest question above is preferred to a containing one
best_q_NearestFirst(page_qs, qs, img) ==
    IF nearest_above(page_qs, qs, img) # 0 THEN nearest_above(page_qs, qs, img)
    ELSE candidate_container(page_qs, qs, img)

\* lines 159-191: containment, else nearest above
best_q(page_qs, qs, img) ==
    IF candidate_container(page_qs, qs, img) # 0 THEN candidate_container(page_qs, qs, img)
    ELSE nearest_above(page_qs, qs, img)

\* the indices of the entries of a page, in list order
IndicesOnPage(seq, p) ==
    LET idx == {i \in 1..Len(seq) : seq[i].page_num = p}
    IN  SortByKey([k \in 1..Cardinality(idx) |->
                      CHOOSE i \in idx : Cardinality({j \in idx : j < i}) = k - 1],
                  [k \in 1..Cardinality(idx) |-> <<k, 0, 0>>])

\* mutant: a question that has an image keeps it
attach_KeepFirst(qs, b, img_id) ==
    IF b = 0 \/ qs[b].image_id # ABSENT THEN qs ELSE [qs EXCEPT ![b].image_id = img_id]

\* lines 194-203: best_q['image_id'] = img_id, whatever the question had
attach(qs, b, img_id) ==
    IF b = 0 THEN qs ELSE [qs EXCEPT ![b].image_id = img_id]

RECURSIVE attach_page(_, _, _, _, _)
\* lines 149-203 for the images imgs_on_page[i..] (indices into imgs) of a page
attach_page(imgs_on_page, i, page_qs, qs, imgs) ==
    IF i > Len(imgs_on_page) THEN [questions |-> qs, images |-> imgs]
    ELSE LET k == imgs_on_page[i]
             img_id == ImgId(i - 1)
             b == best_q(page_qs, qs, imgs[k])
             imgs2 == [imgs EXCEPT ![k].id = img_id]
             qs2 == attach(qs, b, img_id)
         IN  attach_page(imgs_on_page, i + 1, page_qs, qs2, imgs2)

RECURSIVE attach_pages(_, _, _)
\* line 139: the pages in the order in which their first image occurs; a page
\* without a question is skipped and its images get no id
attach_pages(pages, qs, imgs) ==
    IF Len(pages) = 0 THEN [questions |-> qs, images |-> imgs]
    ELSE LET p == Head(pages)
             page_qs == IndicesOnPage(qs, p)
             done == IF Len(page_qs) = 0 THEN [questions |-> qs, images |-> imgs]
                     ELSE attach_page(IndicesOnPage(imgs, p), 1, page_qs, qs, imgs)
         IN  attach_pages(Tail(pages), done.questions, done.images)

RECURSIVE first_pages(_, _)
\* the keys of images_by_page in insertion order
first_pages(imgs, seen) ==
    IF Len(imgs) = 0 THEN <<>>
    ELSE IF Head(imgs).page_num \in seen THEN first_pages(Tail(imgs), seen)
    ELSE <<Head(imgs).page_num>> \o first_pages(Tail(imgs), seen \cup {Head(imgs).page_num})

attach_images_to_questions(questions, images) ==
    attach_pages(first_pages(images, {}), questions, images)

\* the questions and images tried
BinderQuestions == {BQ(1, 0, 100), BQ(1, 200, 300), BQ(1, 50, 150), BQ(2, 0, 100)}
BinderImages == {BImg(1, 10, 20), BImg(1, 120, 140), BImg(1, 310, 321), BImg(2, 10, 20)}

BinderInputs ==
    { [questions |-> qs, images |-> is] :
        qs \in SeqsUpTo(BinderQuestions, MaxBoundQs),
        is \in SeqsUpTo(BinderImages, MaxBoundImgs) }

AInit ==
    /\ fn = "attach_images_to_questions"
    /\ arg \in BinderInputs
    /\ ret = <<>>
    /\ version = "none" /\ total_pages = 0 /\ p_idx = 0 /\ blocks_seen = FALSE
    /\ final_questions = <<>> /\ global_id_counter = 1 /\ pc = "none"
    /\ result = NoResult /\ page_log = NoLog
    /\ start_idx = 0 /\ batch_num = 0 /\ all_questions = <<>>
    /\ all_embedded_images = <<>> /\ answer_key_mappings = <<>>
    /\ batch_log = [num |-> 0, start_page |-> 0, size |-> 0, failed |-> FALSE,
                    failed_before |-> FALSE, questions |-> <<>>]

AttachImages ==
    /\ fn = "attach_images_to_questions" /\ Len(ret) = 0
    /\ ret' = <<attach_images_to_questions(arg.questions, arg.images)>>
    /\ UNCHANGED <<fn, arg>>
    /\ UNCHANGED pvars
    /\ UNCHANGED fvars

ANext == AttachImages

SpecAttach == AInit /\ [][ANext]_vars

\* ---------------------------------------------------------------- text extractors
\* A text line of a page's text layer as PyMuPDF reports it: x and y stand for
\* bbox[0] and bbox[1].
TLine(text, x, y) == [text |-> text, x |-> x, y |-> y]

\* an extracted line: page_num, position, text and the extractor that found it
XLine(page_num, l, source) ==
    [page_num |-> page_num, x |-> l.x, y |-> l.y, column |-> -1,
     reading_order |-> 0, text |-> l.text, source |-> source]

\* str.strip() of a line text is non-empty
NonBlank(text) == text \notin {"", " "}

\* A page of a document: get_text is "raises" when page.get_text("dict") raises,
\* "raises once" when only the first call on the page raises (a failure that
\* does not recur), lines are the lines of its text layer in block order, plumber is what
\* pdfplumber's extract_words leads to ("lines": one line, "empty": no words,
\* "fails": it raises), ocr is TRUE when OCR is available and reads a line.
TPage(get_text, lines, plumber, ocr) ==
    [get_text |-> get_text, lines |-> lines, plumber |-> plumber, ocr |-> ocr]

TextPages ==
    { TPage("ok", <<TLine("b", 10, 2), TLine(" ", 10, 3), TLine("a", 10, 1)>>, "lines", FALSE),
      TPage("ok", <<TLine("a", 10, 1)>>, "empty", FALSE),
      TPage("ok", <<TLine("a", 10, 1)>>, "fails", FALSE),
      TPage("ok", <<>>, "empty", TRUE),
      TPage("ok", <<>>, "lines", FALSE),
      TPage("raises", <<TLine("a", 10, 1)>>, "lines", FALSE),
      TPage("raises once", <<TLine("a", 10, 1)>>, "lines", FALSE) }

\* a document: its pages, and whether pdfplumber can open it and list its pages
TextDocs ==
    { [pages |-> ps, plumber_opens |-> o] :
        ps \in SeqsUpTo(TextPages, MaxDocPages), o \in BOOLEAN }

\* list.sort(key=lambda x: (x["page_num"], x["bbox"][1], x["bbox"][0]))
sort_lines(extracted_lines) ==
    SortByKey(extracted_lines,
        [i \in 1..Len(extracted_lines) |->
            <<extracted_lines[i].page_num, extracted_lines[i].y, extracted_lines[i].x>>])

\* the lines of one page collected by pdf_extractor.extract_text_blocks
\* (if line_text: whitespace lines are kept, no source field is set)
page_lines_plain(page, page_num) ==
    LET kept == SelectSeq(page.lines, LAMBDA l : l.text # "")
    IN  [i \in 1..Len(kept) |-> XLine(page_num + 1, kept[i], "none")]

RECURSIVE plain_loop(_, _, _)
\* the page loop of pdf_extractor.extract_text_blocks: nothing catches a raise
\* of page.get_text
plain_loop(pages, page_num, extracted_lines) ==
    IF page_num >= Len(pages) THEN [raised |-> FALSE, lines |-> extracted_lines]
    ELSE LET page == pages[page_num + 1]
         IN  IF page.get_text # "ok" THEN [raised |-> TRUE, lines |-> <<>>]
             ELSE plain_loop(pages, page_num + 1,
                      extracted_lines \o page_lines_plain(page, page_num))

extract_text_blocks(doc) ==
    LET r == plain_loop(doc.pages, 0, <<>>)
    IN  IF r.raised THEN r ELSE [r EXCEPT !.lines = sort_lines(r.lines)]

\* _extract_with_pymupdf of a page whose get_text returns
_extract_with_pymupdf(page, page_num) ==
    LET kept == SelectSeq(page.lines, LAMBDA l : NonBlank(l.text))
    IN  [i \in 1..Len(kept) |-> XLine(page_num + 1, kept[i], "pymupdf")]

\* _extract_with_pdfplumber: its own try/except turns a failure into no lines
_extract_with_pdfplumber(page, page_num) ==
    IF page.plumber = "lines"
    THEN <<XLine(page_num + 1, TLine("p", 10, 1), "pdfplumber")>>
    ELSE <<>>

\* _extract_with_ocr: its own try/except turns a failure into no lines
_extract_with_ocr(page, page_num) ==
    IF page.ocr THEN <<XLine(page_num + 1, TLine("o", 10, 1), "ocr")>> ELSE <<>>

_merge_extraction_results(fitz_lines, plumber_lines) ==
    IF Len(plumber_lines) = 0 THEN fitz_lines
    ELSE IF Len(fitz_lines) = 0 THEN plumber_lines
    ELSE fitz_lines

RECURSIVE fallback_loop(_, _, _, _)
\* the PyMuPDF-only loop of the except handler, over all pages: a raise of
\* page.get_text leaves the function; failed_at is the page whose get_text
\* raised in the first loop (-1 when pdfplumber raised before it), the only
\* page get_text was called on before and raised
fallback_loop(pages, page_num, extracted_lines, failed_at) ==
    IF page_num >= Len(pages) THEN [raised |-> FALSE, lines |-> extracted_lines]
    ELSE LET page == pages[page_num + 1]
         IN  IF page.get_text = "raises"
                \/ (page.get_text = "raises once" /\ page_num # failed_at)
             THEN [raised |-> TRUE, lines |-> <<>>]
             ELSE fallback_loop(pages, page_num + 1,
                      extracted_lines \o _extract_with_pymupdf(page, page_num), failed_at)

RECURSIVE enhanced_loop(_, _, _)
\* the page loop inside the try: a raise of page.get_text enters the except
\* handler with the lines appended so far
enhanced_loop(pages, page_num, extracted_lines) ==
    IF page_num >= Len(pages) THEN [raised |-> FALSE, lines |-> extracted_lines]
    ELSE LET page == pages[page_num + 1]
             fitz_lines == _extract_with_pymupdf(page, page_num)
             plumber_lines == _extract_with_pdfplumber(page, page_num)
         IN  IF page.get_text # "ok" THEN fallback_loop(pages, 0, extracted_lines, page_num)
             ELSE IF Len(fitz_lines) = 0 /\ Len(plumber_lines) = 0 /\ page.ocr
                  THEN enhanced_loop(pages, page_num + 1,
                           extracted_lines \o _extract_with_ocr(page, page_num))
                  ELSE enhanced_loop(pages, page_num + 1,
                           extracted_lines \o _merge_extraction_results(fitz_lines, plumber_lines))

extract_text_blocks_enhanced(doc) ==
    LET r == IF doc.plumber_opens THEN enhanced_loop(doc.pages, 0, <<>>)
             ELSE fallback_loop(doc.pages, 0, <<>>, -1)
    IN  IF r.raised THEN r ELSE [r EXCEPT !.lines = sort_lines(r.lines)]

RECURSIVE spatial_loop(_, _, _)
\* the first pass of extract_with_spatial_analysis: nothing catches a raise of
\* page.get_text (extract_font_metadata catches its own)
spatial_loop(pages, page_num, all_text_blocks) ==
    IF page_num >= Len(pages) THEN [raised |-> FALSE, lines |-> all_text_blocks]
    ELSE LET page == pages[page_num + 1]
         IN  IF page.get_text # "ok" THEN [raised |-> TRUE, lines |-> <<>>]
             ELSE spatial_loop(pages, page_num + 1,
                      all_text_blocks \o _extract_with_pymupdf(page, page_num))

\* the ordered blocks of all pages; every page of the documents is 600 wide
extract_with_spatial_analysis(doc) ==
    LET r == spatial_loop(doc.pages, 0, <<>>)
    IN  IF r.raised THEN r
        ELSE [r EXCEPT !.lines =
                 calculate_reading_order(r.lines, detect_columns(r.lines, 600))]

TextExtractors ==
    {"extract_text_blocks", "extract_text_blocks_enhanced", "extract_with_spatial_analysis"}

XInit ==
    /\ fn \in TextExtractors
    /\ arg \in TextDocs
    /\ ret = <<>>
    /\ version = "none" /\ total_pages = 0 /\ p_idx = 0 /\ blocks_seen = FALSE
    /\ final_questions = <<>> /\ global_id_counter = 1 /\ pc = "none"
    /\ result = NoResult /\ page_log = NoLog
    /\ start_idx = 0 /\ batch_num = 0 /\ all_questions = <<>>
    /\ all_embedded_images = <<>> /\ answer_key_mappings = <<>>
    /\ batch_log = [num |-> 0, start_page |-> 0, size |-> 0, failed |-> FALSE,
                    failed_before |-> FALSE, questions |-> <<>>]

ExtractTextBlocks ==
    /\ fn = "extract_text_blocks" /\ Len(ret) = 0
    /\ ret' = <<extract_text_blocks(arg)>>
    /\ UNCHANGED <<fn, arg>>
    /\ UNCHANGED pvars
    /\ UNCHANGED fvars

ExtractTextBlocksEnhanced ==
    /\ fn = "extract_text_blocks_enhanced" /\ Len(ret) = 0
    /\ ret' = <<extract_text_blocks_enhanced(arg)>>
    /\ UNCHANGED <<fn, arg>>
    /\ UNCHANGED pvars
    /\ UNCHANGED fvars

ExtractWithSpatialAnalysis ==
    /\ fn = "extract_with_spatial_analysis" /\ Len(ret) = 0
    /\ ret' = <<extract_with_spatial_analysis(arg)>>
    /\ UNCHANGED <<fn, arg>>
    /\ UNCHANGED pvars
    /\ UNCHANGED fvars

XNext ==
    \/ ExtractTextBlocks
    \/ ExtractTextBlocksEnhanced
    \/ ExtractWithSpatialAnalysis

SpecExtract == XInit /\ [][XNext]_vars

\* ---------------------------------------------------------------- input sniffing
\* File contents and file names are sequences of characters.
LowerChar(c) ==
    CASE c = "P" -> "p" [] c = "N" -> "n" [] c = "G" -> "g" [] c = "J" -> "j"
      [] c = "D" -> "d" [] c = "F" -> "f" [] c = "A" -> "a" [] OTHER -> c
Lower(s) == [i \in 1..Len(s) |-> LowerChar(s[i])]

\* bytes.startswith / str.endswith
StartsWith(s, prefix) ==
    Len(prefix) <= Len(s) /\ SubSeq(s, 1, Len(prefix)) = prefix
EndsWith(s, suffix) ==
    Len(suffix) <= Len(s) /\ SubSeq(s, Len(s) - Len(suffix) + 1, Len(s)) = suffix

\* b'%PDF'
PdfMagic == <<"%", "P", "D", "F">>

is_pdf(file_bytes) == StartsWith(file_bytes, PdfMagic)

\* the list literal of is_image
image_extensions ==
    { <<".", "p", "n", "g">>, <<".", "j", "p", "g">>, <<".", "j", "p", "e", "g">>,
      <<".", "w", "e", "b", "p">>, <<".", "g", "i", "f">>, <<".", "b", "m", "p">> }

\* is_image: ext = filename.lower(), then any(ext.endswith(ext) for ext in [...]).
\* Inside the generator expression ext is the loop variable, so each extension
\* is tested against itself and the lowered file name is never read.
is_image(filename) ==
    LET lowered == Lower(filename)
    IN  \E ext \in image_extensions : EndsWith(ext, ext)

\* the branch process_files takes for one file (lines 698-713)
file_branch(file_info) ==
    IF is_pdf(file_info.content) THEN "pdf"
    ELSE IF is_image(file_info.filename) THEN "image"
    ELSE "unknown"

FileStems == { <<>>, <<"a">>, <<"a", ".", "p", "n", "g">> }

FileEndings ==
    image_extensions
        \cup { <<>>, <<".", "P", "N", "G">>, <<".", "J", "p", "g">>,
               <<".", "t", "x", "t">>, <<".", "p", "d", "f">>, <<"p", "n", "g">> }

FileNames == { stem \o ending : stem \in FileStems, ending \in FileEndings }

FileContents ==
    { <<>>, <<"%", "P", "D">>, <<"%", "P", "D", "F">>, <<"%", "P", "D", "F", "-">>,
      <<"x", "%", "P", "D", "F">>, <<"G", "I", "F">> }

FileInfos == { [filename |-> f, content |-> c] : f \in FileNames, c \in FileContents }

SInit ==
    /\ fn = "file_branch"
    /\ arg \in FileInfos
    /\ ret = <<>>
    /\ version = "none" /\ total_pages = 0 /\ p_idx = 0 /\ blocks_seen = FALSE
    /\ final_questions = <<>> /\ global_id_counter = 1 /\ pc = "none"
    /\ result = NoResult /\ page_log = NoLog
    /\ start_idx = 0 /\ batch_num = 0 /\ all_questions = <<>>
    /\ all_embedded_images = <<>> /\ answer_key_mappings = <<>>
    /\ batch_log = [num |-> 0, start_page |-> 0, size |-> 0, failed |-> FALSE,
                    failed_before |-> FALSE, questions |-> <<>>]

\* one round of the file loop of process_files
SniffFile ==
    /\ fn = "file_branch" /\ Len(ret) = 0
    /\ ret' = <<[is_pdf |-> is_pdf(arg.content), is_image |-> is_image(arg.filename),
                 branch |-> file_branch(arg)]>>
    /\ UNCHANGED <<fn, arg>>
    /\ UNCHANGED pvars
    /\ UNCHANGED fvars

SNext == SniffFile

SpecSniff == SInit /\ [][SNext]_vars

\* ---------------------------------------------------------------- segmenter calls
\* detect_question_anchors on a list of lines, then format_questions_for_ai on
\* the questions it returned, as the preview pipelines call them.
SegmentLineTexts == LineTexts \cup {"B. y", "(a) z"}

SegmentInputs == SeqsUpTo(SegmentLineTexts, MaxSegLines)

GInit ==
    /\ fn = "detect_question_anchors"
    /\ arg \in SegmentInputs
    /\ ret = <<>>
    /\ version = "none" /\ total_pages = 0 /\ p_idx = 0 /\ blocks_seen = FALSE
    /\ final_questions = <<>> /\ global_id_counter = 1 /\ pc = "none"
    /\ result = NoResult /\ page_log = NoLog
    /\ start_idx = 0 /\ batch_num = 0 /\ all_questions = <<>>
    /\ all_embedded_images = <<>> /\ answer_key_mappings = <<>>
    /\ batch_log = [num |-> 0, start_page |-> 0, size |-> 0, failed |-> FALSE,
                    failed_before |-> FALSE, questions |-> <<>>]

DetectAnchors ==
    /\ fn = "detect_question_anchors" /\ Len(ret) = 0
    /\ ret' = <<detect_question_anchors(arg)>>
    /\ UNCHANGED <<fn, arg>>
    /\ UNCHANGED pvars
    /\ UNCHANGED fvars

FormatQuestions ==
    /\ fn = "detect_question_anchors" /\ Len(ret) = 1
    /\ ret' = Append(ret, format_questions_for_ai(ret[1]))
    /\ UNCHANGED <<fn, arg>>
    /\ UNCHANGED pvars
    /\ UNCHANGED fvars

GNext == DetectAnchors \/ FormatQuestions

SpecSegment == GInit /\ [][GNext]_vars

\* ---------------------------------------------------------------- spatial relationships
\* A text block or an image with its bbox (x0, y0, x1, y1); an image may have
\* an id.
Box(page_num, x0, y0, x1, y1, id) ==
    [page_num |-> page_num, x0 |-> x0, y0 |-> y0, x1 |-> x1, y1 |-> y1, id |-> id]

_is_contained(inner_bbox, outer_bbox) ==
    /\ outer_bbox.x0 <= inner_bbox.x0 /\ outer_bbox.y0 <= inner_bbox.y0
    /\ outer_bbox.x1 >= inner_bbox.x1 /\ outer_bbox.y1 >= inner_bbox.y1

\* _calculate_distance_and_direction: dx and dy are kept doubled (the centers
\* are half sums) and the distance squared, which orders distances as the
\* square root does
_calculate_distance_and_direction(bbox1, bbox2) ==
    LET dx == (bbox2.x0 + bbox2.x1) - (bbox1.x0 + bbox1.x1)
        dy == (bbox2.y0 + bbox2.y1) - (bbox1.y0 + bbox1.y1)
    IN  [distance |-> dx * dx + dy * dy,
         direction |-> IF Abs(dy) > Abs(dx)
                       THEN (IF dy > 0 THEN "below" ELSE "above")
                       ELSE (IF dx > 0 THEN "right" ELSE "left")]

\* img.get('id', f"img_{page_num}")
image_id_of(img) == IF img.id = ABSENT THEN "img_" \o ToString(img.page_num) ELSE img.id

Relationship(text_block_id, image_id, relationship, distance, confidence) ==
    [text_block_id |-> text_block_id, image_id |-> image_id,
     relationship |-> relationship, distance |-> distance, confidence |-> confidence]

\* _calculate_confidence: 1.0 at distance 0, less beyond
_calculate_confidence(distance) == IF distance = 0 THEN "1.0" ELSE "below 1.0"

RECURSIVE block_loop(_, _, _, _, _)
\* The loop over page_blocks (indices into text_blocks) for one image, lines
\* 34-55: st holds closest_block (0 for None), min_distance (-1 for inf),
\* relationship_type (NULL for None) and the relationships appended.
block_loop(text_blocks, page_blocks, i, img, st) ==
    IF i > Len(page_blocks) THEN st
    ELSE LET b == page_blocks[i]
             dd == _calculate_distance_and_direction(img, text_blocks[b])
         IN  IF _is_contained(img, text_blocks[b])
             THEN [st EXCEPT !.closest_block = b,
                             !.appended = Append(@, Relationship(b, image_id_of(img),
                                                        "contained", 0, "1.0"))]
             ELSE IF st.min_distance = -1 \/ dd.distance < st.min_distance
             THEN block_loop(text_blocks, page_blocks, i + 1, img,
                      [st EXCEPT !.closest_block = b, !.min_distance = dd.distance,
                                 !.relationship_type = dd.direction])
             ELSE block_loop(text_blocks, page_blocks, i + 1, img, st)

\* mutant: nothing more is appended for an image found inside a block
closing_relationship_Guarded(st, img) ==
    IF Len(st.appended) = 0 /\ st.closest_block # 0 /\ st.relationship_type # NULL
    THEN <<Relationship(st.closest_block, image_id_of(img), st.relationship_type,
                        st.min_distance, _calculate_confidence(st.min_distance))>>
    ELSE <<>>

\* lines 57-64: if closest_block and relationship_type
closing_relationship(st, img) ==
    IF st.closest_block # 0 /\ st.relationship_type # NULL
    THEN <<Relationship(st.closest_block, image_id_of(img), st.relationship_type,
                        st.min_distance, _calculate_confidence(st.min_distance))>>
    ELSE <<>>

\* the body of the loop over images, lines 19-64
image_relationships(text_blocks, img) ==
    LET page_blocks == IndicesOnPage(text_blocks, img.page_num)
        st == block_loop(text_blocks, page_blocks, 1, img,
                  [closest_block |-> 0, min_distance |-> -1,
                   relationship_type |-> NULL, appended |-> <<>>])
    IN  IF Len(page_blocks) = 0 THEN <<>>
        ELSE st.appended \o closing_relationship(st, img)

RECURSIVE analyze_spatial_relationships(_, _)
analyze_spatial_relationships(text_blocks, images) ==
    IF Len(images) = 0 THEN <<>>
    ELSE image_relationships(text_blocks, Head(images))
            \o analyze_spatial_relationships(text_blocks, Tail(images))

\* the text lines and images tried; the images have different ids
SpatialBlocks ==
    { Box(1, 0, 0, 50, 10, ABSENT), Box(1, 0, 20, 100, 80, ABSENT),
      Box(1, 0, 200, 50, 210, ABSENT), Box(2, 0, 0, 50, 10, ABSENT) }

SpatialImages ==
    { Box(1, 10, 30, 40, 60, "IMG_0"), Box(1, 60, 100, 90, 130, ABSENT),
      Box(2, 0, 50, 20, 70, ABSENT) }

SpatialInputs ==
    { [text_blocks |-> bs, images |-> is] :
        bs \in SeqsUpTo(SpatialBlocks, MaxSpatialBlocks),
        is \in {s \in SeqsUpTo(SpatialImages, MaxSpatialImgs) :
                   \A i, j \in 1..Len(s) : i # j => s[i] # s[j]} }

RInit ==
    /\ fn = "analyze_spatial_relationships"
    /\ arg \in SpatialInputs
    /\ ret = <<>>
    /\ version = "none" /\ total_pages = 0 /\ p_idx = 0 /\ blocks_seen = FALSE
    /\ final_questions = <<>> /\ global_id_counter = 1 /\ pc = "none"
    /\ result = NoResult /\ page_log = NoLog
    /\ start_idx = 0 /\ batch_num = 0 /\ all_questions = <<>>
    /\ all_embedded_images = <<>> /\ answer_key_mappings = <<>>
    /\ batch_log = [num |-> 0, start_page |-> 0, size |-> 0, failed |-> FALSE,
                    failed_before |-> FALSE, questions |-> <<>>]

AnalyzeSpatial ==
    /\ fn = "analyze_spatial_relationships" /\ Len(ret) = 0
    /\ ret' = <<analyze_spatial_relationships(arg.text_blocks, arg.images)>>
    /\ UNCHANGED <<fn, arg>>
    /\ UNCHANGED pvars
    /\ UNCHANGED fvars

RNext == AnalyzeSpatial

SpecSpatial == RInit /\ [][RNext]_vars

\* ---------------------------------------------------------------- merge_question_parts calls
\* The groups merge_question_parts is tried on: two or more parts with the
\* same question number, with texts that contain one another and option maps
\* that give different values for the same key.
PartUnits ==
    { VQ(IdInt(1), "single", t, o, CaNone, 0, FALSE) :
        t \in {<<"a">>, <<"a", "b">>, <<"b">>, <<" ">>},
        o \in {NoOptions, Opts("x", "y", NULL, NULL), Opts("y", "", " ", "z")} }

PartGroups == {g \in SeqsUpTo(PartUnits, MaxParts) : Len(g) >= 2}

HInit ==
    /\ fn = "merge_question_parts"
    /\ arg \in PartGroups
    /\ ret = <<>>
    /\ version = "none" /\ total_pages = 0 /\ p_idx = 0 /\ blocks_seen = FALSE
    /\ final_questions = <<>> /\ global_id_counter = 1 /\ pc = "none"
    /\ result = NoResult /\ page_log = NoLog
    /\ start_idx = 0 /\ batch_num = 0 /\ all_questions = <<>>
    /\ all_embedded_images = <<>> /\ answer_key_mappings = <<>>
    /\ batch_log = [num |-> 0, start_page |-> 0, size |-> 0, failed |-> FALSE,
                    failed_before |-> FALSE, questions |-> <<>>]

\* merged = merge_question_parts(group), line 588
MergeParts ==
    /\ fn = "merge_question_parts" /\ Len(ret) = 0
    /\ ret' = <<merge_question_parts(arg)>>
    /\ UNCHANGED <<fn, arg>>
    /\ UNCHANGED pvars
    /\ UNCHANGED fvars

HNext == MergeParts

SpecParts == HInit /\ [][HNext]_vars

\* ---------------------------------------------------------------- normalize_question_id calls
\* The identifiers tried: a prefix, a number or a word, and a suffix.
IdPrefixes ==
    { <<>>, <<"Q">>, <<"q">>, <<"Q", " ">>, <<"#">>, <<"N", "o", " ">>,
      <<"Q", "u", "e", "s", "t", "i", "o", "n", " ">>,
      <<"q", "u", "e", "s", "t", "i", "o", "n", " ">>,
      <<"Q", "U", "E", "S", "T", "I", "O", "N", " ">> }

IdNumbers == { <<"5">>, <<"1", "2">> }

IdBodies == IdNumbers \cup { <<>>, <<"x">>, <<"5", "a">> }

IdSuffixes == { <<>>, <<".">>, <<")">>, <<" ">> }

IdInputs ==
    { IdInt(5), IdInt(12), IdNone }
        \cup { IdStr(p \o b \o s) : p \in IdPrefixes, b \in IdBodies, s \in IdSuffixes }

NInit ==
    /\ fn = "normalize_question_id"
    /\ arg \in IdInputs
    /\ ret = <<>>
    /\ version = "none" /\ total_pages = 0 /\ p_idx = 0 /\ blocks_seen = FALSE
    /\ final_questions = <<>> /\ global_id_counter = 1 /\ pc = "none"
    /\ result = NoResult /\ page_log = NoLog
    /\ start_idx = 0 /\ batch_num = 0 /\ all_questions = <<>>
    /\ all_embedded_images = <<>> /\ answer_key_mappings = <<>>
    /\ batch_log = [num |-> 0, start_page |-> 0, size |-> 0, failed |-> FALSE,
                    failed_before |-> FALSE, questions |-> <<>>]

\* q_id = normalize_question_id(q.get("id")), line 574
NormalizeId ==
    /\ fn = "normalize_question_id" /\ Len(ret) = 0
    /\ ret' = <<normalize_question_id(arg)>>
    /\ UNCHANGED <<fn, arg>>
    /\ UNCHANGED pvars
    /\ UNCHANGED fvars

NNext == NormalizeId

SpecIds == NInit /\ [][NNext]_vars

\* ---------------------------------------------------------------- oracle adapter calls
\* An adapter call is given the responses the oracle would return to
\* successive requests; responses[1] answers the first request.

\* mutant: a blocked response is followed by a second request
oracle_calls_RetryBlocked(responses) ==
    IF responses[1].kind = "blocked" THEN responses ELSE <<responses[1]>>

\* the responses an adapter call obtains: each adapter calls
\* model.generate_content once (ai_reasoner.py:57, ai_reasoner_v2.py:123,
\* pdf_vision_pipeline.py:767) and has no loop around it
oracle_calls(responses) == <<responses[1]>>

\* the outcome of an adapter call: the number of requests made, the value the
\* adapter hands to its pipeline, and whether an exception leaves the adapter
AdapterOutcome(obtained, value) ==
    [calls |-> Len(obtained), value |-> value, raised |-> FALSE]

\* the responses tried after a first one
PreviewFollowUps ==
    { [kind |-> "blocked", top |-> "none", isList |-> FALSE, items |-> <<>>],
      [kind |-> "json", top |-> "dict", isList |-> TRUE,
       items |-> <<[isDict |-> TRUE, questionText |-> "AI text",
                    correctAnswer |-> "A", needsAnswer |-> ABSENT]>>] }

BatchFollowUps ==
    { [kind |-> "blocked",
       raw_text |-> [text |-> <<>>, data |-> [isDict |-> FALSE, questions |-> <<>>]]],
      [kind |-> "text",
       raw_text |-> [text |-> Doc2,
                     data |-> [isDict |-> TRUE,
                               questions |-> <<VItem(IdInt(2), "single", <<>>, NULL, 2,
                                                     FALSE, NoOptions, CaNone)>>]]] }

AdapterInputs ==
    { [adapter |-> a, responses |-> <<r, f>>, embedded_images |-> <<>>] :
        a \in {"analyze_page_refinement", "analyze_with_vision_and_text"},
        r \in OracleResponses, f \in PreviewFollowUps }
      \cup { [adapter |-> "process_files", responses |-> <<r, f>>, embedded_images |-> imgs] :
               r \in BatchResponses, f \in BatchFollowUps,
               imgs \in {<<>>, <<Img(1, 2, "E1")>>} }

QInit ==
    /\ fn = "oracle adapter"
    /\ arg \in AdapterInputs
    /\ ret = <<>>
    /\ version = "none" /\ total_pages = 0 /\ p_idx = 0 /\ blocks_seen = FALSE
    /\ final_questions = <<>> /\ global_id_counter = 1 /\ pc = "none"
    /\ result = NoResult /\ page_log = NoLog
    /\ start_idx = 0 /\ batch_num = 0 /\ all_questions = <<>>
    /\ all_embedded_images = <<>> /\ answer_key_mappings = <<>>
    /\ batch_log = [num |-> 0, start_page |-> 0, size |-> 0, failed |-> FALSE,
                    failed_before |-> FALSE, questions |-> <<>>]

\* analyze_page_refinement for one page
CallRefinement ==
    /\ fn = "oracle adapter" /\ arg.adapter = "analyze_page_refinement" /\ Len(ret) = 0
    /\ LET obtained == oracle_calls(arg.responses)
       IN  ret' = <<AdapterOutcome(obtained,
                        analyze_page_refinement(obtained[Len(obtained)]))>>
    /\ UNCHANGED <<fn, arg>>
    /\ UNCHANGED pvars
    /\ UNCHANGED fvars

\* analyze_with_vision_and_text for one page
CallVisionAndText ==
    /\ fn = "oracle adapter" /\ arg.adapter = "analyze_with_vision_and_text" /\ Len(ret) = 0
    /\ LET obtained == oracle_calls(arg.responses)
       IN  ret' = <<AdapterOutcome(obtained,
                        analyze_with_vision_and_text(obtained[Len(obtained)]))>>
    /\ UNCHANGED <<fn, arg>>
    /\ UNCHANGED pvars
    /\ UNCHANGED fvars

\* the try block of one batch of process_files, lines 758-780: the value is
\* what the batch adds to all_questions
CallBatch ==
    /\ fn = "oracle adapter" /\ arg.adapter = "process_files" /\ Len(ret) = 0
    /\ LET obtained == oracle_calls(arg.responses)
       IN  ret' = <<AdapterOutcome(obtained,
                        extend_questions(<<>>, batch_result(obtained[Len(obtained)],
                                                            arg.embedded_images)))>>
    /\ UNCHANGED <<fn, arg>>
    /\ UNCHANGED pvars
    /\ UNCHANGED fvars

QNext == CallRefinement \/ CallVisionAndText \/ CallBatch

SpecOracle == QInit /\ [][QNext]_vars

\* ---------------------------------------------------------------- claims
\* q.get('correctAnswer') is None
unanswered(q) == q.correctAnswer = NULL

\* C1: a returned question list has at least as many questions as the
\* deterministic candidates (anchors) found over the document's pages, whatever
\* the oracle did.
C1_NonLoss ==
    (pc = "returned" /\ page_log.total >= 1) => Len(final_questions) >= page_log.total

\* C2: when the adapter's result for a page is empty or no list, the loop gets
\* past that page without raising and the page's questions are the fallback
\* questions of the page's candidates, one per candidate, in candidate order,
\* and they are the tail of final_questions.
C2_FallbackPerCandidate ==
    page_log.failed = "yes" =>
        /\ p_idx = page_log.page
        /\ Len(page_log.out) = Len(page_log.cands)
        /\ \A i \in 1..Len(page_log.cands) :
              /\ page_log.out[i].questionText
                    = JoinWith(" ", page_log.cands[i].raw_question_lines)
              /\ page_log.out[i].correctAnswer = NULL
              /\ page_log.out[i].needsAnswer = "true"
        /\ Len(final_questions) >= Len(page_log.out)
        /\ \A i \in 1..Len(page_log.out) :
              final_questions[Len(final_questions) - Len(page_log.out) + i].questionText
                 = page_log.out[i].questionText

\* C2 witness: the fallback replaced a failed page's result by two candidates
\* with different texts.
C2_Witness ==
    /\ page_log.failed = "yes"
    /\ Len(page_log.cands) = 2
    /\ Len(page_log.out) = 2
    /\ page_log.out[1].questionText # page_log.out[2].questionText

\* C4: in a returned result canConfirm is true iff every question has a
\* non-null correctAnswer, and unansweredCount is the number of questions whose
\* correctAnswer is null.
C4_CanConfirm ==
    pc = "returned" =>
        /\ result.canConfirm = (\A i \in 1..Len(final_questions) : ~unanswered(final_questions[i]))
        /\ result.unansweredCount
              = Cardinality({i \in 1..Len(final_questions) : unanswered(final_questions[i])})

KeysOf(qs) == {QKey(qs[i]) : i \in 1..Len(qs)}

\* C7: merging the result of a successful merge again succeeds and returns the
\* same list: same units, same field values, same order.
C7_MergeIdempotent ==
    Len(ret) = 2 => (~ret[2].raised /\ ret[2].value = ret[1].value)

\* C7 witness: the first call merged parts (its result is shorter than the
\* input and holds a merged unit next to another unit), and the second call
\* has returned.
C7_Witness ==
    /\ Len(ret) = 2
    /\ Len(ret[1].value) >= 2
    /\ Len(ret[1].value) < Len(arg)
    /\ \E i \in 1..Len(ret[1].value) :
          ret[1].value[i].crossPage /\ IsSubstring(TextSeparator, ret[1].value[i].question)

\* C8: a successful merge returns exactly one unit per distinct normalized key
\* of its input, and a unit whose key no other input unit has is returned as
\* it was (in particular with its crossPage flag).
C8_OnePerKey ==
    (Len(ret) >= 1 /\ ~ret[1].raised) =>
        LET out == ret[1].value
        IN  /\ KeysOf(out) = KeysOf(arg)
            /\ \A i, j \in 1..Len(out) : i # j => QKey(out[i]) # QKey(out[j])
            /\ \A i \in 1..Len(arg) :
                  (\A j \in 1..Len(arg) : j # i => QKey(arg[j]) # QKey(arg[i]))
                     => \E k \in 1..Len(out) : out[k] = arg[i]

\* C8 witness: the input has a unit with a key of its own, not flagged
\* crossPage, besides two units that share a key.
C8_Witness ==
    /\ Len(ret) >= 1 /\ ~ret[1].raised
    /\ Len(arg) = 3 /\ Len(ret[1].value) = 2
    /\ \E i \in 1..3 :
          /\ ~arg[i].crossPage
          /\ \A j \in 1..3 : j # i => QKey(arg[j]) # QKey(arg[i])

\* the options a question of this type must have: the four keys A, B, C, D for
\* a choice type, none for numerical
OptionKeysOk(q) ==
    /\ q.type \in {"single", "multiple"} => DOMAIN q.options = {"A", "B", "C", "D"}
    /\ q.type = "numerical" => DOMAIN q.options = {}

\* C6 (merge_question_parts): a question merged from parts that all have the
\* four option keys (none when numerical) has the four option keys when its
\* type is single or multiple, and no options when it is numerical.
C6_OptionKeys ==
    (fn = "merge_cross_page_questions" /\ Len(ret) >= 1 /\ ~ret[1].raised) =>
        \A k \in 1..Len(ret[1].value) :
            (\A i \in 1..Len(arg) :
                QKey(arg[i]) = QKey(ret[1].value[k]) => OptionKeysOk(arg[i]))
               => OptionKeysOk(ret[1].value[k])

\* the answer-key entry that decides a question: the last mapping with this
\* normalized number that has an answer
HasEntry(ak, key, a) ==
    \E i \in 1..Len(ak) :
        /\ ak[i].question_number.tag # "none" /\ ak[i].answer.kind # "none"
        /\ normalize_question_id(ak[i].question_number) = key
        /\ ak[i].answer = a
        /\ \A j \in (i + 1)..Len(ak) :
              (ak[j].question_number.tag # "none" /\ ak[j].answer.kind # "none")
                 => normalize_question_id(ak[j].question_number) # key

\* C9: after _match_answer_key every question with an answer-key entry has its
\* correctAnswer and its type from the entry: a letter gives the letter and
\* 'single', a list the list and 'multiple', a numeric string {min, max} with
\* min = max and 'numerical', whatever the type was before.
C9_AnswerAndType ==
    (fn = "_match_answer_key" /\ Len(ret) = 1) =>
        \A i \in 1..Len(arg.questions) :
            LET q == ret[1][i]
                key == QKey(arg.questions[i])
            IN  /\ \A s \in {<<"B">>, <<"b">>} :
                      HasEntry(arg.answer_key, key, AnsStr(s))
                         => (q.correctAnswer = CaStr("B") /\ q.type = "single")
                /\ HasEntry(arg.answer_key, key, AnsList(<<"A", "C">>))
                         => (q.correctAnswer = CaList(<<"A", "C">>) /\ q.type = "multiple")
                /\ HasEntry(arg.answer_key, key, AnsStr(<<"1", "2">>))
                         => (q.correctAnswer = CaRange(12, 12) /\ q.type = "numerical")

\* a response cut off inside a question object after one of the keys marks,
\* negativeMarks, correctAnswer, with no closing brace from that key on
CutAfterKey(text) ==
    /\ text \in Prefixes(Doc1) \cup Prefixes(Doc2)
    /\ \E k \in 1..Len(text) :
          /\ text[k] \in {Str("marks"), Str("negativeMarks"), Str("correctAnswer")}
          /\ k + 2 = Len(text) /\ text[k + 1] = Colon /\ IsValue(text[k + 2])
          /\ \A j \in k..Len(text) : text[j] # RBrace

\* C10: for a response cut off after the value of a marks / negativeMarks /
\* correctAnswer key, with no closing brace after that key, the repair gives
\* text that json.loads accepts, and _parse_response does not raise.
C10_RepairCloses ==
    (fn = "_parse_response" /\ Len(ret) = 1 /\ CutAfterKey(arg)) =>
        (~ret[1].raised /\ json_loads_ok(ret[1].text))

\* the number of batches of a document of n pages
Batches(n) == (n + MAX_PAGES_PER_BATCH - 1) \div MAX_PAGES_PER_BATCH

\* C3 (state part): when process_files has ended on a document with pages,
\* every batch was attempted, and the call ended with the zero-questions error
\* exactly when the accumulated list was empty.
C3_EndState ==
    (version = "vision" /\ pc \in {"returned", "raised"} /\ total_pages > 0) =>
        /\ batch_num = Batches(total_pages)
        /\ (result.error = "ValueError: no questions") <=> (Len(all_questions) = 0)

\* C3 (step part): a batch whose oracle call or response parse fails adds no
\* question and leaves the loop running at the next batch.
C3_FailedBatchStep ==
    (batch_num' = batch_num + 1 /\ batch_log'.failed) =>
        /\ all_questions' = all_questions
        /\ pc' = "loop"
        /\ start_idx' = Min({start_idx + MAX_PAGES_PER_BATCH, total_pages})

\* C3: in process_files a failed batch contributes zero questions and never
\* stops a later batch from being attempted; the call fails with the
\* zero-questions error exactly when the accumulated list is empty after the
\* last batch.
C3_FailedBatchSkipped == [](C3_EndState) /\ [][C3_FailedBatchStep]_vars

\* a run in which a batch failed, a later batch gave questions, and the call
\* returned
C3_Witness ==
    /\ version = "vision" /\ pc = "returned"
    /\ batch_log.failed_before /\ ~batch_log.failed
    /\ Len(batch_log.questions) > 0

\* C5 (_parse_response): in the questions of a parsed batch each embedded
\* image is the image of at most one question.
C5_ImageBoundOnce ==
    version = "vision" =>
        \A k \in 1..Len(all_embedded_images) :
            Cardinality({i \in 1..Len(batch_log.questions) :
                batch_log.questions[i].image = all_embedded_images[k].base64_uri}) <= 1

\* the number of times byte content b is placed on page p of a document
Placements(doc, p, b) ==
    LET page == doc.pages[p]
        idx == {i \in 1..Len(page) : page[i].bytes = b}
        RECURSIVE Sum(_)
        Sum(S) == IF S = {} THEN 0
                  ELSE LET i == CHOOSE i \in S : TRUE IN page[i].nrects + Sum(S \ {i})
    IN  Sum(idx)

\* C11: when the same extractable byte content is placed several times on the
\* first page it occurs on, the output of each image extractor has exactly
\* one element with that content on that page.
C11_OneElementPerContent ==
    (fn \in ImageExtractors /\ Len(ret) = 1) =>
        \A b \in {"b1", "b2"} :
            Placements(arg, 1, b) >= 2 =>
                /\ ~ret[1].raised
                /\ Cardinality({i \in 1..Len(ret[1].out) :
                       ret[1].out[i].page_num = 1 /\ ret[1].out[i].bytes = b}) = 1

\* the column detect_columns puts a left edge x in: the index of its cluster
DetectedColumn(text_blocks, page_width, p, x) ==
    LET blocks == blocks_of_page(text_blocks, p)
        clusters == _cluster_coordinates([i \in 1..Len(blocks) |-> blocks[i].x],
                                         page_width \div 10)
    IN  CHOOSE c \in 1..Len(clusters) : \E k \in 1..Len(clusters[c]) : clusters[c][k] = x

\* C12: on a page with two or more detected columns every line of column k
\* has a smaller reading_order than every line of column k+1, whatever the
\* y-coordinates.
C12_ColumnsInOrder ==
    (fn = "calculate_reading_order" /\ Len(ret) = 1) =>
        \A i, j \in 1..Len(ret[1]) :
            LET a == ret[1][i]
                b == ret[1][j]
            IN  (/\ a.page_num = b.page_num
                 /\ detect_columns(arg.text_blocks, arg.page_width)[a.page_num] >= 2
                 /\ DetectedColumn(arg.text_blocks, arg.page_width, a.page_num, a.x)
                      < DetectedColumn(arg.text_blocks, arg.page_width, b.page_num, b.x))
                => a.reading_order < b.reading_order

\* the questions of the page of image k whose range contains its center
Containers(k) ==
    {i \in 1..Len(arg.questions) :
        /\ arg.questions[i].page_num = arg.images[k].page_num
        /\ 2 * arg.questions[i].y0 <= arg.images[k].y0 + arg.images[k].y1
        /\ arg.images[k].y0 + arg.images[k].y1 <= 2 * arg.questions[i].y1}

\* the images after image k on its page
LaterOnPage(k) ==
    {j \in (k + 1)..Len(arg.images) : arg.images[j].page_num = arg.images[k].page_num}

\* no question of the image's page other than i carries the image's id
NoOtherBound(k, i) ==
    \A o \in 1..Len(arg.questions) :
        (o # i /\ arg.questions[o].page_num = arg.images[k].page_num)
            => ret[1].questions[o].image_id # ret[1].images[k].id

\* C13 as stated: an image whose center lies in some question's vertical range
\* is, after attach_images_to_questions, the image of the first such question
\* and of no other question.
C13_ContainmentWins ==
    (fn = "attach_images_to_questions" /\ Len(ret) = 1) =>
        \A k \in 1..Len(arg.images) :
            Containers(k) # {} =>
                /\ ret[1].questions[Min(Containers(k))].image_id = ret[1].images[k].id
                /\ NoOtherBound(k, Min(Containers(k)))

\* C13, amended: an image whose center lies in some question's vertical range
\* is the image of no question but the first such question, and that question
\* carries this image or a later image of the page (the last assignment to a
\* question replaces the earlier ones).
C13_ContainmentWinsUnlessReplaced ==
    (fn = "attach_images_to_questions" /\ Len(ret) = 1) =>
        \A k \in 1..Len(arg.images) :
            Containers(k) # {} =>
                /\ \/ ret[1].questions[Min(Containers(k))].image_id = ret[1].images[k].id
                   \/ \E j \in LaterOnPage(k) :
                         ret[1].questions[Min(Containers(k))].image_id = ret[1].images[j].id
                /\ NoOtherBound(k, Min(Containers(k)))

\* an image bound to the question containing its center although an earlier
\* question ends above the image
C13_Witness ==
    /\ fn = "attach_images_to_questions" /\ Len(ret) = 1
    /\ \E k \in 1..Len(arg.images) :
          /\ Containers(k) # {}
          /\ ret[1].questions[Min(Containers(k))].image_id = ret[1].images[k].id
          /\ \E o \in 1..Len(arg.questions) :
                /\ o \notin Containers(k)
                /\ arg.questions[o].page_num = arg.images[k].page_num
                /\ arg.questions[o].y1 <= arg.images[k].y0

\* C14: every batch process_files sends to the oracle has at most 5 page
\* images, the overlap page included.
C14_BatchAtMostFive ==
    (version = "vision" /\ batch_log.num > 0) => batch_log.size <= MAX_PAGES_PER_BATCH

\* the 1-based numbers of the pages of doc whose text extraction fails
FailingPages(doc) == {p \in 1..Len(doc.pages) : doc.pages[p].get_text = "raises"}

\* the extracted lines of page p
LinesOfPage(lines, p) == SelectSeq(lines, LAMBDA l : l.page_num = p)

\* C15: when the text extraction of exactly one page of a document fails, each
\* of the three text extractors returns (it does not raise), its result holds
\* no line of the failing page, and it holds the text-layer lines of every
\* other page that has visible text.
C15_PerPageIsolation ==
    (/\ fn \in TextExtractors /\ Len(ret) = 1
     /\ Cardinality(FailingPages(arg)) = 1)
        => /\ ~ret[1].raised
           /\ \A p \in 1..Len(arg.pages) :
                IF p \in FailingPages(arg)
                THEN Len(LinesOfPage(ret[1].lines, p)) = 0
                ELSE \A i \in 1..Len(arg.pages[p].lines) :
                        NonBlank(arg.pages[p].lines[i].text)
                            => \E j \in 1..Len(ret[1].lines) :
                                  /\ ret[1].lines[j].page_num = p
                                  /\ ret[1].lines[j].text = arg.pages[p].lines[i].text

\* the lowered file name ends with one of the six image extensions
HasImageExtension(filename) ==
    \E e \in image_extensions : EndsWith(Lower(filename), e)

\* C16: is_pdf is true exactly for contents that start with the PDF magic
\* number, is_image is true exactly for file names that end, in any letter
\* case, with one of the six image extensions, and a file that is not a PDF and
\* has another extension takes the unknown-file-type branch of process_files.
C16_Sniffing ==
    (fn = "file_branch" /\ Len(ret) = 1)
        => /\ ret[1].is_pdf = StartsWith(arg.content, PdfMagic)
           /\ ret[1].is_image = HasImageExtension(arg.filename)
           /\ (~ret[1].is_pdf /\ ~HasImageExtension(arg.filename))
                 => ret[1].branch = "unknown"

\* C17: merge_cross_page_questions returns for every input list (it does not
\* raise), and in the list it returns the units with a numeric key come first,
\* in ascending key order, and the units with a non-numeric key after them.
C17_MergeSortsAnyIds ==
    (fn = "merge_cross_page_questions" /\ Len(ret) >= 1) =>
        /\ ~ret[1].raised
        /\ LET out == ret[1].value
           IN  \A i, j \in 1..Len(out) :
                  i < j =>
                     /\ QKey(out[j]).tag = "int" => QKey(out[i]).tag = "int"
                     /\ (QKey(out[i]).tag = "int" /\ QKey(out[j]).tag = "int")
                           => QKey(out[i]).n < QKey(out[j]).n

\* the positions of the lines of the input that open a unit: not noise, and
\* matching the anchor pattern
AnchorPositions(lines) ==
    {i \in 1..Len(lines) : ~ignore_pattern(lines[i]) /\ anchor_pattern(lines[i])}

\* the positions of a set of positions, in ascending order
Ascending(S) ==
    [k \in 1..Cardinality(S) |-> CHOOSE i \in S : Cardinality({j \in S : j < i}) = k - 1]

OwnedBy(lines, a) ==
    {i \in a..Len(lines) :
        /\ ~ignore_pattern(lines[i])
        /\ \A b \in AnchorPositions(lines) : b <= i => b <= a}

OptionStarts(lines) == {i \in 1..Len(lines) : opt_pattern(lines[i])}

\* the lines of a unit that belong to the slot of a letter: the option-start
\* lines of that letter and the lines that follow one of them before the next
\* option-start line
SlotLines(lines, letter) ==
    {i \in 1..Len(lines) :
        \E s \in OptionStarts(lines) :
            /\ s <= i /\ opt_letter(lines[s]) = letter
            /\ \A t \in OptionStarts(lines) : t <= i => t <= s}

\* C20: format_questions_for_ai puts every line of a unit in exactly one place
\* and loses no text: the lines before the first option-start line are the
\* raw_question_lines, and the slot of each letter holds, joined by single
\* spaces and in order, the texts of all lines that belong to it (None when
\* there is none).
C20_NoTextLost ==
    (fn = "detect_question_anchors" /\ Len(ret) = 2) =>
        \A k \in 1..Len(ret[1]) :
            LET lines == ret[1][k].lines
                q == ret[2][k]
                raw == Ascending({i \in 1..Len(lines) :
                                     \A s \in OptionStarts(lines) : i < s})
            IN  /\ q.raw_question_lines = [n \in 1..Len(raw) |-> lines[raw[n]]]
                /\ \A letter \in {"A", "B", "C", "D"} :
                      LET slot == Ascending(SlotLines(lines, letter))
                      IN  q.options[letter] =
                              IF Len(slot) = 0 THEN NULL
                              ELSE JoinWith(" ", [n \in 1..Len(slot) |-> lines[slot[n]]])

\* the questions of the image's page whose bottom edge is at or above the top
\* edge of image k
Above(k) ==
    {i \in 1..Len(arg.questions) :
        /\ arg.questions[i].page_num = arg.images[k].page_num
        /\ arg.questions[i].y1 <= arg.images[k].y0}

\* the first of the questions above image k with the smallest gap
NearestAbove(k) ==
    CHOOSE i \in Above(k) :
        /\ \A j \in Above(k) : arg.questions[j].y1 <= arg.questions[i].y1
        /\ \A j \in Above(k) : j < i => arg.questions[j].y1 < arg.questions[i].y1

\* no question of the page of image k carries the id of image k
Unbound(k) ==
    \A o \in 1..Len(arg.questions) :
        arg.questions[o].page_num = arg.images[k].page_num
            => ret[1].questions[o].image_id # ret[1].images[k].id

\* C21 as stated: an image whose center lies in no question's range is, after
\* attach_images_to_questions, the image of the nearest question above it on
\* its page and of no other; with no question above it, it is the image of no
\* question.
C21_NearestAbove ==
    (fn = "attach_images_to_questions" /\ Len(ret) = 1) =>
        \A k \in 1..Len(arg.images) :
            Containers(k) = {} =>
                IF Above(k) = {} THEN Unbound(k)
                ELSE /\ ret[1].questions[NearestAbove(k)].image_id = ret[1].images[k].id
                     /\ NoOtherBound(k, NearestAbove(k))

\* C21, amended: an image whose center lies in no question's range is the
\* image of no question but the nearest question above it, and that question
\* carries this image or a later image of the page; with no question above
\* it, it is the image of no question.
C21_NearestAboveUnlessReplaced ==
    (fn = "attach_images_to_questions" /\ Len(ret) = 1) =>
        \A k \in 1..Len(arg.images) :
            Containers(k) = {} =>
                IF Above(k) = {} THEN Unbound(k)
                ELSE /\ \/ ret[1].questions[NearestAbove(k)].image_id = ret[1].images[k].id
                        \/ \E j \in LaterOnPage(k) :
                              ret[1].questions[NearestAbove(k)].image_id = ret[1].images[j].id
                     /\ NoOtherBound(k, NearestAbove(k))

\* an image below two questions, bound to the nearer one, which is not the
\* first of them in the list
C21_Witness ==
    /\ fn = "attach_images_to_questions" /\ Len(ret) = 1
    /\ \E k \in 1..Len(arg.images) :
          /\ Containers(k) = {}
          /\ Cardinality(Above(k)) = 2
          /\ NearestAbove(k) = 2
          /\ ret[1].questions[2].image_id = ret[1].images[k].id

\* the question the containment / nearest-above rule assigns image k to, 0
\* when there is none
Assigned(k) ==
    IF Containers(k) # {} THEN Min(Containers(k))
    ELSE IF Above(k) # {} THEN NearestAbove(k)
    ELSE 0

\* the images the rule assigns to question i
AssignedTo(i) == {k \in 1..Len(arg.images) : Assigned(k) = i}

\* C22: after attach_images_to_questions a question carries the id of the last
\* image, in list order, that the rule assigned to it (none when no image was
\* assigned to it), and the earlier images assigned to it are the image of no
\* question of the page.
C22_LastWriteWins ==
    (fn = "attach_images_to_questions" /\ Len(ret) = 1) =>
        \A i \in 1..Len(arg.questions) :
            IF AssignedTo(i) = {} THEN ret[1].questions[i].image_id = ABSENT
            ELSE LET last == CHOOSE k \in AssignedTo(i) : \A j \in AssignedTo(i) : j <= k
                 IN  /\ ret[1].questions[i].image_id = ret[1].images[last].id
                     /\ \A k \in AssignedTo(i) \ {last} : Unbound(k)

\* a question to which the rule assigned two images
C22_Witness ==
    /\ fn = "attach_images_to_questions" /\ Len(ret) = 1
    /\ \E i \in 1..Len(arg.questions) :
          /\ Cardinality(AssignedTo(i)) = 2
          /\ ret[1].questions[i].image_id = "IMG_1"

\* the relationships returned for image k
RelationshipsOf(k) ==
    SelectSeq(ret[1], LAMBDA r : r.image_id = image_id_of(arg.images[k]))

\* the text lines of the page of image k whose bbox contains the image's bbox
ContainingBlocks(k) ==
    {b \in 1..Len(arg.text_blocks) :
        /\ arg.text_blocks[b].page_num = arg.images[k].page_num
        /\ _is_contained(arg.images[k], arg.text_blocks[b])}

\* C23: analyze_spatial_relationships returns at most one relationship per
\* image: if a line of the page contains the image it is the 'contained'
\* relationship with distance 0 and confidence 1.0, otherwise a directional one.
C23_OneRelationshipPerImage ==
    (fn = "analyze_spatial_relationships" /\ Len(ret) = 1) =>
        \A k \in 1..Len(arg.images) :
            LET rels == RelationshipsOf(k)
            IN  /\ Len(rels) <= 1
                /\ ContainingBlocks(k) # {} =>
                      /\ Len(rels) = 1
                      /\ rels[1].relationship = "contained"
                      /\ rels[1].distance = 0 /\ rels[1].confidence = "1.0"
                /\ (ContainingBlocks(k) = {} /\ Len(rels) = 1) =>
                      rels[1].relationship \in {"above", "below", "left", "right"}

\* the stripped, non-blank question texts of the members, in member order
MemberTexts == collect_texts(arg)

\* the members' texts that are not inside another member's text (of equal
\* texts the first counts), in member order
TextsNotInsideAnother ==
    LET texts == MemberTexts
        keep == {i \in 1..Len(texts) :
                    ~\E j \in 1..Len(texts) :
                        /\ j # i /\ IsSubstring(texts[i], texts[j])
                        /\ (texts[j] # texts[i] \/ j < i)}
        order == Ascending(keep)
    IN  [n \in 1..Len(order) |-> texts[order[n]]]

\* C24: the merged question text is made of exactly the members' texts that
\* are not a substring of another member's text, in member order, whatever the
\* order of the members; a text that contains another member's text is kept.
C24_SubstringTextsDropped ==
    (fn = "merge_question_parts" /\ Len(ret) = 1) =>
        ret[1].question = JoinSeqs(TextSeparator, TextsNotInsideAnother)

\* the members that have a non-empty value for an option key
MembersWith(key) ==
    {i \in 1..Len(arg) : key \in DOMAIN arg[i].options /\ OptNonBlank(arg[i].options[key])}

\* C25: for each option key that some member has a non-empty value for, the
\* merged value is the value of the first such member.
C25_FirstOptionValueWins ==
    (fn = "merge_question_parts" /\ Len(ret) = 1) =>
        \A key \in {"A", "B", "C", "D"} :
            MembersWith(key) # {} =>
                /\ key \in DOMAIN ret[1].options
                /\ ret[1].options[key] = arg[Min(MembersWith(key))].options[key]

\* the prefixes of the forms "n", "Qn", "Q n", "Question n" and "#n", in
\* any letter case
NumberPrefixes ==
    { <<>>, <<"Q">>, <<"q">>, <<"Q", " ">>, <<"#">>,
      <<"Q", "u", "e", "s", "t", "i", "o", "n", " ">>,
      <<"q", "u", "e", "s", "t", "i", "o", "n", " ">>,
      <<"Q", "U", "E", "S", "T", "I", "O", "N", " ">> }

\* the identifier has one of the forms n, "n", "Qn", "Q n", "Question n", "#n",
\* "n." for the number d
HasNumberForm(id, d) ==
    \/ id = IdInt(DigitsValue(d))
    \/ \E p \in NumberPrefixes : id = IdStr(p \o d)
    \/ id = IdStr(d \o <<".">>)

\* C26: normalize_question_id maps an identifier of one of the forms n, "n",
\* "Qn", "Q n", "Question n", "#n", "n." to the integer n, and returns an
\* identifier without digits unchanged.
C26_NumberForms ==
    (fn = "normalize_question_id" /\ Len(ret) = 1) =>
        /\ \A d \in IdNumbers : HasNumberForm(arg, d) => ret[1] = IdInt(DigitsValue(d))
        /\ (arg.tag = "str" /\ \A i \in 1..Len(arg.s) : arg.s[i] \notin Digits)
              => ret[1] = arg

\* the first response of the call has no text (content-safety block)
FirstBlocked == arg.responses[1].kind = "blocked"

\* the first response of the call has a text that cannot be parsed
FirstUnparseable ==
    IF arg.adapter = "process_files"
    THEN arg.responses[1].kind = "text" /\ load_json(arg.responses[1].raw_text.text).raised
    ELSE arg.responses[1].kind = "badjson"

\* the adapter handed no oracle question to its pipeline
NoOracleQuestions ==
    IF arg.adapter = "analyze_page_refinement"
    THEN ret[1].value = [isList |-> TRUE, items |-> <<>>]
    ELSE ret[1].value = <<>>

\* C27: in each oracle adapter a response without text and a response that
\* cannot be parsed have the same outcome: no oracle question for the page or
\* batch, one request made, and no exception leaves the adapter, so that the
\* pipeline goes on.
C27_BlockedLikeUnparseable ==
    (fn = "oracle adapter" /\ Len(ret) = 1 /\ (FirstBlocked \/ FirstUnparseable)) =>
        /\ NoOracleQuestions
        /\ ret[1].calls = 1
        /\ ~ret[1].raised

\* a batch whose first response is blocked, where a second request would have
\* been answered with a question
C27_Witness ==
    /\ fn = "oracle adapter" /\ Len(ret) = 1
    /\ arg.adapter = "process_files"
    /\ FirstBlocked
    /\ arg.responses[2].kind = "text"

\* the number of returned text-layer lines of page p that carry the text of line l
TimesReturned(lines, p, l) ==
    Cardinality({j \in 1..Len(lines) :
                    /\ lines[j].page_num = p /\ lines[j].source = "pymupdf"
                    /\ lines[j].text = l.text /\ lines[j].y = l.y})

\* the first loop of extract_text_blocks_enhanced raised after it had appended
\* the lines of at least one page
RaisedPartWay(doc) ==
    /\ doc.plumber_opens
    /\ \E p \in 2..Len(doc.pages) :
          /\ doc.pages[p].get_text # "ok"
          /\ \A q \in 1..(p - 1) : doc.pages[q].get_text = "ok"
          /\ \E q \in 1..(p - 1) : \E i \in 1..Len(doc.pages[q].lines) :
                NonBlank(doc.pages[q].lines[i].text)

\* C28: whenever extract_text_blocks_enhanced returns, its result holds every
\* visible text-layer line of every page exactly once, also when the first
\* page loop raised part-way and the fallback loop ran over all pages.
C28_EachLineOnce ==
    (fn = "extract_text_blocks_enhanced" /\ Len(ret) = 1 /\ ~ret[1].raised)
        => \A p \in 1..Len(arg.pages) : \A i \in 1..Len(arg.pages[p].lines) :
              NonBlank(arg.pages[p].lines[i].text)
                  => TimesReturned(ret[1].lines, p, arg.pages[p].lines[i]) = 1

\* the fallback ran after a part-way raise and the function returned
C28_FallbackAfterAppend ==
    fn = "extract_text_blocks_enhanced" /\ Len(ret) = 1 /\ ~ret[1].raised
        /\ RaisedPartWay(arg)

\* the 1-based page numbers of the last batch
BatchPages == batch_log.start_page .. (batch_log.start_page + batch_log.size - 1)

\* ceil(P / 5)
BatchesNeeded(P) == (P + MAX_PAGES_PER_BATCH - 1) \div MAX_PAGES_PER_BATCH

\* the greatest page number of a non-empty set of pages
LastPage(S) == CHOOSE p \in S : \A q \in S : q <= p

\* C29: for P >= 1 page images the batch loop never makes more than ceil(P/5)
\* oracle attempts and has made exactly ceil(P/5) when its condition fails;
\* by then every page was in a batch; each batch after the first begins with
\* the last page of the previous batch and shares no other page with it.
C29_BatchLoop ==
    (version = "vision" /\ total_pages >= 1)
        => /\ batch_num <= BatchesNeeded(total_pages)
           /\ batch_log.num = batch_num
           /\ start_idx >= total_pages
                => /\ batch_num = BatchesNeeded(total_pages)
                   /\ batch_log.sent_pages = 1..total_pages
           /\ batch_num > 1
                => /\ batch_log.start_page = LastPage(batch_log.prev_pages)
                   /\ BatchPages \cap batch_log.prev_pages = {batch_log.start_page}

\* the loop of an 11-page document has ended after its third batch
C29_Witness ==
    version = "vision" /\ total_pages = 11 /\ start_idx >= total_pages
        /\ batch_num = 3 /\ batch_log.prev_pages = 5..10

\* the questions i and j of the accumulated list come from different batches
\* and are put into one group by merge_cross_page_questions
MergedAcrossBatches(i, j) ==
    /\ i # j
    /\ batch_log.origin[i].batch # batch_log.origin[j].batch
    /\ QKey(all_questions[i]) = QKey(all_questions[j])

\* C30: when process_files returns, two questions of different batches were
\* merged only if the oracle declared the ids of both; questions the oracle
\* gave no id for are not merged with one another.
C30_MergeOnlyDeclared ==
    (version = "vision" /\ pc = "returned")
        => \A i, j \in 1..Len(all_questions) :
              MergedAcrossBatches(i, j)
                  => batch_log.origin[i].declared /\ batch_log.origin[j].declared

\* two questions without a declared id, from different batches, are merged in
\* a call that returns
C30_UndeclaredMerged ==
    /\ version = "vision" /\ pc = "returned"
    /\ \E i, j \in 1..Len(all_questions) :
          /\ MergedAcrossBatches(i, j)
          /\ ~batch_log.origin[i].declared /\ ~batch_log.origin[j].declared
    /\ Len(result.questions) < Len(all_questions)

====
